---- MODULE Spec2Model ----
(***************************************************************************)
(* The DECT NR+ PHY session driver of hophop (hophop/src/nrfxlib_phy):     *)
(* the interrupt-context event sink dect_event, the bounded event channel  *)
(* DECT_EVENTS, the shared scratch buffer RECVBUF behind its mutex, and    *)
(* the task-side operations init_after_modem_init, time_get, rssi, rx and  *)
(* tx of DectPhy, with the result guards RecvResult and RssiResult.        *)
(*                                                                         *)
(* The modem library is the environment.  It accepts one request at a      *)
(* time and emits events only between accepting a request and emitting     *)
(* the event that ends it.  Inside a request it emits the events of that   *)
(* kind of request in any order and number, or one event that belongs to   *)
(* another kind of request and then nothing more; an event that is out of  *)
(* order, repeated or foreign comes with one fixed payload.  The history   *)
(* variable level records how far the modem has strayed from the event     *)
(* sequences the driver relies on.  The caller may drop the future of one  *)
(* suspended operation; this is explored against a modem that has kept     *)
(* and keeps to the sequences of a well-behaved modem.                     *)
(***************************************************************************)
EXTENDS Integers, Sequences, FiniteSets, TLC

VARIABLES
    debug_assertions,  \* build profile: are debug_assert! checks compiled in
    pc,                \* where the task is: outside or inside which operation
    pcc,               \* rx local: Option<Result<(u64, usize), PccError>>
    pdc,               \* rx local: Option<Result<usize, PdcError>>
    result,            \* rssi local: Option<(u64, Range<usize>)>
    DECT_EVENTS,       \* the event channel, oldest first
    RECVBUF,           \* contents of the scratch buffer
    locked,            \* the RECVBUF mutex is held (by a result guard)
    guard,             \* the result guard last returned by rx or rssi
    ret,               \* what the last operation returned
    panic,             \* "none", or the reason the firmware crashed
    modem,             \* the request the modem is working on
    seen,              \* history: events the operation in flight has consumed
    level,             \* history: 0 strict, 1 sequenced, 2 arbitrary modem
    cancelled,         \* history: a suspended operation's future was dropped
    stale,             \* history: how many events at the head of DECT_EVENTS
                       \* were emitted for the operation that was cancelled
    tainted,           \* history: the operation in flight consumed such an event
    tx_params,         \* history: the arguments of the last tx call, and what
                       \* it passed to the modem
    handles,           \* how many DectPhy values init_after_modem_init returned
    cpc,               \* what the program does with the MAC codec: "off",
                       \* "build", or the call it made last
    ies,               \* the InformationElements the program built, in order
    made,              \* the result of the last IE constructor or type conversion call
    w,                 \* the bytes the writer has received from serialize
    stream,            \* parse_stream: the input not yet consumed (data)
    items,             \* parse_stream: what next() returned so far
    buffer,            \* the argument of Header::parse
    parsed,            \* the result of Header::parse
    written            \* the result of serialize into a writer that may
                       \* fill up or fail, and that writer

vars == <<debug_assertions, pc, pcc, pdc, result, DECT_EVENTS, RECVBUF, locked,
          guard, ret, panic, modem, seen, level, cancelled, stale, tainted,
          tx_params, handles, cpc, ies, made, w, stream, items, buffer, parsed,
          written>>

\* The variables of the PHY driver and those of the MAC codec.
driver_vars == <<debug_assertions, pc, pcc, pdc, result, DECT_EVENTS, RECVBUF, locked,
                 guard, ret, panic, modem, seen, level, cancelled, stale, tainted,
                 tx_params, handles>>

codec_vars == <<cpc, ies, made, w, stream, items, buffer, parsed, written>>

----------------------------------------------------------------------------
(* Program constants *)

\* Capacity of the DECT_EVENTS channel.
DECT_EVENTS_CAP == 4

\* Capacity of the RECVBUF heapless::Vec.
RECVBUF_CAP == 2400

----------------------------------------------------------------------------
(* Bounds of the model *)

\* Times (event time, stf_start_time, meas_start_time) range over 1..MaxTime.
MaxTime == 2

\* Modem status codes range over 0..MaxErr; 0 is success.
MaxErr == 2

\* The modem emits at most this many events for one request.
MaxEventsPerOp == 4

\* The shortest PDC payload and the RSSI run the modem delivers.
SmallLen == 2

\* How many times the program calls init_after_modem_init at most.
MaxHandles == 2

\* How many IEs the program builds into one stream at most.
MaxIes == 2

\* How many bytes follow the longest MAC header in an input at most.
MaxTail == 2

Times == 1..MaxTime

Errs == 0..MaxErr

\* PDC payload lengths: short, filling the buffer exactly after a 5-byte
\* header, and one byte more than that.
PdcLens == {SmallLen, RECVBUF_CAP - 5, RECVBUF_CAP - 4}

\* RSSI run lengths: one that fits and one that can never fit.
RssiLens == {SmallLen + 1, RECVBUF_CAP + 1}

\* The union hdr of an nrf_modem_dect_phy_pcc_event as 10 bytes.
PccHdr == [i \in 1..10 |-> 16 + i]

\* The bytes behind pdc.data, by length.
PdcData(n) == [i \in 1..n |-> 128 + (i % 64)]

\* The samples behind rssi.meas, by length.
RssiMeas(n) == [i \in 1..n |-> 200 + (i % 32)]

Max(a, b) == IF a >= b THEN a ELSE b

----------------------------------------------------------------------------
(* Values *)

\* A DectEvent.  kind is the variant; ok, a, b, c, e are its fields:
\*   Completed(r)     ok, a    r = Ok(()) iff ok, else Err(PhyErr(a))
\*   PccError(k)      e        the PccError variant
\*   Pcc(start, len)  a, b
\*   Pdc(len)         a
\*   Rssi(start, r)   a, ok, b, c   r = Some(b..c) iff ok, else None
Event(kind, ok, a, b, c, e) ==
    [kind |-> kind, ok |-> ok, a |-> a, b |-> b, c |-> c, e |-> e]

Plain(kind) == Event(kind, TRUE, 0, 0, 0, "")

\* PhyResultExt::into_phy_result: 0 is Ok(()), v # 0 is Err(PhyErr(v)).
into_phy_result(v) == IF v = 0 THEN [ok |-> TRUE, code |-> 0] ELSE [ok |-> FALSE, code |-> v]

DectEventOuter(time, event) == [time |-> time, event |-> event]

\* An event as the modem hands it to the handler.
Raw(id, time, err, phy_type, start, len, latency) ==
    [id |-> id, time |-> time, err |-> err, phy_type |-> phy_type, start |-> start,
     len |-> len, latency |-> latency]

\* latency::LATENCY_INFO, the table of firmware 1.1.0, as one opaque value.
LATENCY_INFO == "nrf nr+ 1.1.0"

latency_is_expected(latency_info) == latency_info = LATENCY_INFO

\* Every event the modem may hand to the handler.
RawEvents ==
    {Raw(id, 1, err, 0, 0, 0, LATENCY_INFO) :
        id \in {"INIT", "CONFIGURE", "ACTIVATE"}, err \in {0, 1}}
    \cup {Raw("LATENCY", 1, 0, 0, 0, 0, l) : l \in {LATENCY_INFO, "other"}}
    \cup {Raw("LATENCY", 1, 1, 0, 0, 0, LATENCY_INFO)}
    \cup {Raw("TIME", t, err, 0, 0, 0, LATENCY_INFO) : t \in Times, err \in {0, 1}}
    \cup {Raw("COMPLETED", 1, err, 0, 0, 0, LATENCY_INFO) : err \in Errs}
    \cup {Raw("PCC", 1, 0, ty, t, 0, LATENCY_INFO) : ty \in {0, 1}, t \in Times}
    \cup {Raw("PCC", 1, 0, 2, 1, 0, LATENCY_INFO)}
    \cup {Raw("PCC_ERROR", 1, 0, 0, 0, 0, LATENCY_INFO)}
    \cup {Raw("PDC", 1, 0, 0, 0, n, LATENCY_INFO) : n \in PdcLens}
    \cup {Raw("PDC_ERROR", 1, 0, 0, 0, 0, LATENCY_INFO)}
    \cup {Raw("RSSI", 1, 0, 0, t, n, LATENCY_INFO) : t \in Times, n \in RssiLens}
    \cup {Raw("UNKNOWN", 1, 0, 0, 0, 0, LATENCY_INFO)}

\* Option and Result values of the task's locals, flattened:
\* set = is Some; ok = is Ok; a, b, c the payload; e the error variant.
Local(set, ok, a, b, c, e) ==
    [set |-> set, ok |-> ok, a |-> a, b |-> b, c |-> c, e |-> e]

None == Local(FALSE, FALSE, 0, 0, 0, "")

\* No guard exists.  held: "none", "live" (borrows the handle) or "leaked"
\* (forgotten without being dropped); kind: which guard type; ok..pdc_err the
\* indices of a RecvResult; lo..hi the range of an RssiResult.
NoGuard ==
    [kind |-> "none", held |-> "none", ok |-> FALSE, err |-> "", pcc_time |-> 0,
     pcc_len |-> 0, pdc_ok |-> FALSE, pdc_len |-> 0, pdc_err |-> "", lo |-> 0, hi |-> 0]

\* A return value: op the operation, kind one of "pending", "Ok", "None",
\* "Some", "General", "Phy", "Usage"; a the phy code, the time or the start.
Ret(op, kind, a) == [op |-> op, kind |-> kind, a |-> a]

NoRet == Ret("none", "pending", 0)

\* The arguments of a tx call (the length of pcc, the network id), whether
\* tx came to call nrf_modem_dect_phy_tx, and the phy_type it passed.
TxParams(pcc_len, network_id, called, phy_type) ==
    [pcc_len |-> pcc_len, network_id |-> network_id, called |-> called,
     phy_type |-> phy_type]

NoTx == TxParams(0, 0, FALSE, 0)

\* The modem: op the request it works on, stage how far the event sequence
\* of the request has come, n the events emitted for it, dead whether it has
\* emitted an event foreign to the request, orphan whether the operation that
\* made the request was cancelled, last, phy_type, start and len the id of
\* the event it emitted last for the request, with its phy_type, its start
\* time and its data length.
ModemIdle ==
    [op |-> "none", stage |-> 0, n |-> 0, dead |-> FALSE, orphan |-> FALSE, last |-> "none",
     phy_type |-> 0, start |-> 0, len |-> 0]

Request(op) ==
    [op |-> op, stage |-> 0, n |-> 0, dead |-> FALSE, orphan |-> FALSE, last |-> "none",
     phy_type |-> 0, start |-> 0, len |-> 0]

----------------------------------------------------------------------------
(* The modem *)

\* The event that ends a request.
Terminator(op) ==
    CASE op \in {"rx", "rssi", "tx"} -> "COMPLETED"
      [] op = "time_get" -> "TIME"
      [] op = "init" -> "INIT"
      [] op = "latency_get" -> "LATENCY"
      [] op = "configure" -> "CONFIGURE"
      [] op = "activate" -> "ACTIVATE"
      [] OTHER -> "NEVER"

\* The event ids that belong to a request.
Family(op) ==
    CASE op = "rx" -> {"PCC", "PCC_ERROR", "PDC", "PDC_ERROR", "COMPLETED"}
      [] op = "rssi" -> {"RSSI", "COMPLETED"}
      [] OTHER -> {Terminator(op)}

\* One event of each id: what the modem emits out of order, repeated, or
\* inside a request the event is foreign to.
StrayEvents ==
    {Raw(id, 1, 0, 0, 1, SmallLen, LATENCY_INFO) :
        id \in {"INIT", "CONFIGURE", "ACTIVATE", "LATENCY", "TIME", "COMPLETED", "PCC",
                "PCC_ERROR", "PDC", "PDC_ERROR", "RSSI", "UNKNOWN"}}

\* The modem's position inside a receive request after it emitted arg:
\* 0 nothing yet, 1 a decodable PCC, 2 a PCC error, 3 a PDC or PDC error.
\* Inside an RSSI request: 0 nothing yet, 1 the RSSI report.
NextStage(m, arg) ==
    CASE m.op = "rx" /\ m.stage = 0 /\ arg.id = "PCC" /\ arg.phy_type \in {0, 1} -> 1
      [] m.op = "rx" /\ m.stage = 0 /\ arg.id \in {"PCC", "PCC_ERROR"} -> 2
      [] m.op = "rx" /\ m.stage \in {0, 1, 2} /\ arg.id \in {"PDC", "PDC_ERROR"} -> 3
      [] m.op = "rssi" /\ m.stage = 0 /\ arg.id = "RSSI" -> 1
      [] OTHER -> m.stage

\* How far emitting arg strays from what the driver relies on:
\* 0: the sequences of a well-behaved modem: for a receive, PCC or PCC error,
\*    then (only after a decodable PCC) PDC or PDC error, then COMPLETED; for
\*    RSSI, one report that fits and COMPLETED, or a failing COMPLETED alone;
\*    for the others their completion event with status success;
\* 1: still, in this order, at most PCC-or-PccError, PDC-or-PdcError and
\*    COMPLETED (at most one RSSI report and COMPLETED), but with a PDC after
\*    no or a failed PCC, an unknown phy_type, an oversized RSSI report, a
\*    successful RSSI completion without a report, or a failure status;
\* 2: anything else.
Deviation(m, arg) ==
    CASE m.op = "rx" /\ arg.id = "COMPLETED" -> 0
      [] m.op = "rx" /\ m.stage = 0 /\ arg.id = "PCC" ->
            IF arg.phy_type \in {0, 1} THEN 0 ELSE 1
      [] m.op = "rx" /\ m.stage = 0 /\ arg.id = "PCC_ERROR" -> 0
      [] m.op = "rx" /\ m.stage = 1 /\ arg.id \in {"PDC", "PDC_ERROR"} -> 0
      [] m.op = "rx" /\ m.stage \in {0, 2} /\ arg.id \in {"PDC", "PDC_ERROR"} -> 1
      [] m.op = "rssi" /\ m.stage = 0 /\ arg.id = "RSSI" ->
            IF arg.len <= RECVBUF_CAP THEN 0 ELSE 1
      [] m.op = "rssi" /\ m.stage = 0 /\ arg.id = "COMPLETED" ->
            IF arg.err # 0 THEN 0 ELSE 1
      [] m.op = "rssi" /\ m.stage = 1 /\ arg.id = "COMPLETED" -> 0
      [] m.op = "tx" /\ arg.id = "COMPLETED" -> 0
      [] m.op = "latency_get" /\ arg.id = "LATENCY" ->
            IF arg.err = 0 /\ latency_is_expected(arg.latency) THEN 0 ELSE 1
      [] m.op \in {"time_get", "init", "configure", "activate"}
            /\ arg.id = Terminator(m.op) ->
            IF arg.err = 0 THEN 0 ELSE 1
      [] OTHER -> 2

\* What the modem may emit next; only what a well-behaved modem emits when
\* strict.
Choices(m, strict) ==
    {arg \in RawEvents : Deviation(m, arg) <= (IF strict THEN 0 ELSE 1)}
    \cup {arg \in StrayEvents : Deviation(m, arg) = 2 /\ ~strict}

\* The modem after it emitted arg.
Emitted(m, arg) ==
    IF arg.id = Terminator(m.op) THEN ModemIdle
    ELSE [op |-> m.op, stage |-> NextStage(m, arg), n |-> m.n + 1,
          dead |-> arg.id \notin Family(m.op) \cup {"UNKNOWN"}, orphan |-> m.orphan,
          last |-> arg.id, phy_type |-> arg.phy_type, start |-> arg.start,
          len |-> arg.len]

----------------------------------------------------------------------------
(* The interrupt-context event sink *)

extend_from_slice_partial(buf, data) ==
    IF Len(buf) + Len(data) <= RECVBUF_CAP
    THEN [ok |-> TRUE, buf |-> buf \o data]
    ELSE [ok |-> FALSE, buf |-> buf \o SubSeq(data, 1, RECVBUF_CAP - Len(buf))]

\* heapless::Vec::extend_from_slice: all of data or nothing.
extend_from_slice(buf, data) ==
    IF Len(buf) + Len(data) <= RECVBUF_CAP
    THEN [ok |-> TRUE, buf |-> buf \o data]
    ELSE [ok |-> FALSE, buf |-> buf]

\* Outcomes of the match in dect_event.
Lowered(event, buf) == [out |-> "send", event |-> event, buf |-> buf, why |-> "none"]

Crash(why, buf) == [out |-> "panic", event |-> Plain("Init"), buf |-> buf, why |-> why]

\* An unknown event id that takes the firmware down.
Ignored_fatal(buf) ==
    [out |-> "panic", event |-> Plain("Init"), buf |-> buf,
     why |-> "isr: Event had no known handler"]

Ignored(buf) == [out |-> "return", event |-> Plain("Init"), buf |-> buf, why |-> "none"]

\* The PCC arm: pick the header length by phy_type, take the lock, assert the
\* buffer empty, store the header.
lower_pcc_no_check(arg, buf, lk) ==
    LET header == SubSeq(PccHdr, 1, IF arg.phy_type = 0 THEN 5 ELSE 10)
    IN  IF lk THEN Crash("isr: PCC: Was checked when doing a request", buf)
        ELSE IF Len(buf) # 0 THEN Crash("isr: PCC: assert_eq!(recvbuf.len(), 0)", buf)
        ELSE Lowered(Event("Pcc", TRUE, arg.start, Len(header), 0, ""),
                     extend_from_slice(buf, header).buf)

lower_pcc(arg, buf, lk) ==
    IF arg.phy_type \notin {0, 1}
    THEN Lowered(Event("PccError", FALSE, 0, 0, 0, "UnexpectedEventDetails"), buf)
    ELSE LET header_len == IF arg.phy_type = 0 THEN 5 ELSE 10
             header == SubSeq(PccHdr, 1, header_len)
         IN  IF lk THEN Crash("isr: PCC: Was checked when doing a request", buf)
             ELSE IF Len(buf) # 0 THEN Crash("isr: PCC: assert_eq!(recvbuf.len(), 0)", buf)
             ELSE Lowered(Event("Pcc", TRUE, arg.start, Len(header), 0, ""),
                          extend_from_slice(buf, header).buf)

\* The PDC arm: take the lock, store the data if it fits, report its length.
lower_pdc(arg, buf, lk) ==
    LET data == PdcData(arg.len)
    IN  IF lk THEN Crash("isr: PDC: Was checked when doing a request", buf)
        ELSE Lowered(Event("Pdc", TRUE, Len(data), 0, 0, ""),
                     extend_from_slice(buf, data).buf)

\* The RSSI arm: store the samples if the lock is free and they fit.
lower_rssi_unchecked(arg, buf, lk) ==
    LET meas == RssiMeas(arg.len)
        start == Len(buf)
        ext == extend_from_slice(buf, meas)
    IN  IF ~lk
        THEN Lowered(Event("Rssi", TRUE, arg.start, start, start + Len(meas), ""), ext.buf)
        ELSE Lowered(Event("Rssi", FALSE, arg.start, 0, 0, ""), buf)

lower_rssi_expect(arg, buf, lk) ==
    LET meas == RssiMeas(arg.len)
        start == Len(buf)
        ext == extend_from_slice(buf, meas)
    IN  IF lk THEN Crash("isr: RSSI: Was checked when doing a request", buf)
        ELSE IF ext.ok
        THEN Lowered(Event("Rssi", TRUE, arg.start, start, start + Len(meas), ""), ext.buf)
        ELSE Lowered(Event("Rssi", FALSE, arg.start, 0, 0, ""), buf)

lower_rssi(arg, buf, lk) ==
    LET meas == RssiMeas(arg.len)
        start == Len(buf)
        ext == extend_from_slice(buf, meas)
    IN  IF ~lk /\ ext.ok
        THEN Lowered(Event("Rssi", TRUE, arg.start, start, start + Len(meas), ""), ext.buf)
        ELSE Lowered(Event("Rssi", FALSE, arg.start, 0, 0, ""), buf)

\* The match on arg.id in dect_event.
lower(arg, buf, lk) ==
    CASE arg.id = "INIT" ->
            IF arg.err # 0 THEN Crash("isr: init.err", buf) ELSE Lowered(Plain("Init"), buf)
      [] arg.id = "CONFIGURE" ->
            IF arg.err # 0 THEN Crash("isr: configure.err", buf)
            ELSE Lowered(Plain("Configure"), buf)
      [] arg.id = "ACTIVATE" ->
            IF arg.err # 0 THEN Crash("isr: activate.err", buf)
            ELSE Lowered(Plain("Activate"), buf)
      [] arg.id = "RSSI" -> lower_rssi(arg, buf, lk)
      [] arg.id = "COMPLETED" ->
            LET r == into_phy_result(arg.err)
            IN  Lowered(Event("Completed", r.ok, r.code, 0, 0, ""), buf)
      [] arg.id = "TIME" ->
            IF arg.err # 0 THEN Crash("isr: Never saw this fail", buf)
            ELSE Lowered(Plain("TimeGet"), buf)
      [] arg.id = "PCC" -> lower_pcc(arg, buf, lk)
      [] arg.id = "PCC_ERROR" -> Lowered(Event("PccError", FALSE, 0, 0, 0, "CrcError"), buf)
      [] arg.id = "PDC" -> lower_pdc(arg, buf, lk)
      [] arg.id = "PDC_ERROR" -> Lowered(Plain("PdcError"), buf)
      [] arg.id = "LATENCY" ->
            IF arg.err # 0 THEN Crash("isr: latency.err", buf)
            ELSE IF ~latency_is_expected(arg.latency)
            THEN Crash("isr: Latency changed compared to known firmware versions.", buf)
            ELSE Lowered(Plain("LatencyGet"), buf)
      [] OTHER -> Ignored(buf)

\* DECT_EVENTS.try_send(..).expect("Queue is managed")
try_send(queue, item) ==
    IF Len(queue) >= DECT_EVENTS_CAP
    THEN [ok |-> FALSE, queue |-> queue]
    ELSE [ok |-> TRUE, queue |-> Append(queue, item)]

\* The modem calls the handler with one event of the request it works on.
dect_event ==
    /\ panic = "none"
    /\ modem.op # "none"
    /\ modem.n < MaxEventsPerOp
    /\ ~modem.dead
    /\ \E arg \in Choices(modem, cancelled) :
        LET l == lower(arg, RECVBUF, locked)
            sent == try_send(DECT_EVENTS, DectEventOuter(arg.time, l.event))
        IN  /\ modem' = Emitted(modem, arg)
            /\ level' = Max(level, Deviation(modem, arg))
            /\ panic' = IF l.out = "panic" THEN l.why
                        ELSE IF l.out = "send" /\ ~sent.ok THEN "isr: Queue is managed"
                        ELSE "none"
            /\ RECVBUF' = l.buf
            /\ DECT_EVENTS' = IF l.out = "send" THEN sent.queue ELSE DECT_EVENTS
            /\ stale' = IF modem.orphan /\ l.out = "send" /\ sent.ok THEN stale + 1
                        ELSE stale
    /\ UNCHANGED codec_vars
    /\ UNCHANGED <<handles, tx_params, debug_assertions, pc, pcc, pdc, result, locked, guard, ret, seen,
                   cancelled, tainted>>

----------------------------------------------------------------------------
(* The task side: DectPhy *)

\* Outcomes of a synchronous modem call (nrf_modem_dect_phy_*().into_result()):
\* the modem accepts a request only while it works on no other one, and may
\* refuse any request.
AcceptChoices(m) == IF m.op = "none" THEN BOOLEAN ELSE {FALSE}

\* The states in which init_after_modem_init awaits an event.
InitWaits == {"await_Init", "await_LatencyGet", "await_Configure", "await_Activate"}

\* The let-else patterns of init_after_modem_init: the event kind each await
\* accepts.
Expected(at) ==
    CASE at = "await_Init" -> "Init"
      [] at = "await_LatencyGet" -> "LatencyGet"
      [] at = "await_Configure" -> "Configure"
      [] at = "await_Activate" -> "Activate"

\* An init that configures before it asks for the latency.
NextCall_swapped(at) ==
    CASE at = "await_Init" -> [call |-> "configure", wait |-> "await_Configure"]
      [] at = "await_Configure" -> [call |-> "latency_get", wait |-> "await_LatencyGet"]
      [] at = "await_LatencyGet" -> [call |-> "activate", wait |-> "await_Activate"]
      [] at = "await_Activate" -> [call |-> "none", wait |-> "idle"]

\* The modem call that follows each await of init_after_modem_init, and the
\* await after it.
NextCall(at) ==
    CASE at = "await_Init" -> [call |-> "latency_get", wait |-> "await_LatencyGet"]
      [] at = "await_LatencyGet" -> [call |-> "configure", wait |-> "await_Configure"]
      [] at = "await_Configure" -> [call |-> "activate", wait |-> "await_Activate"]
      [] at = "await_Activate" -> [call |-> "none", wait |-> "idle"]

\* init_after_modem_init up to its first await: set the handler, call init.
init_call ==
    /\ panic = "none"
    /\ \E accepted \in AcceptChoices(modem) :
        IF accepted
        THEN /\ pc' = "await_Init"
             /\ modem' = Request("init")
             /\ ret' = Ret("init", "pending", 0)
        ELSE /\ pc' = "failed"
             /\ modem' = modem
             /\ ret' = Ret("init", "General", 0)
    /\ seen' = <<>>
    /\ tainted' = FALSE
    /\ UNCHANGED stale
    /\ UNCHANGED codec_vars
    /\ UNCHANGED <<handles, tx_params, debug_assertions, pcc, pdc, result, DECT_EVENTS, RECVBUF, locked,
                   guard, panic, level, cancelled>>

\* The program calls init_after_modem_init.
init_begin == pc = "uninit" /\ init_call

\* The program calls init_after_modem_init once more, after it was given a
\* handle and with no operation in flight.
init_again == pc = "idle" /\ handles >= 1 /\ handles < MaxHandles /\ init_call

\* One await of init_after_modem_init and the code up to the next one.
init_recv ==
    /\ panic = "none"
    /\ pc \in InitWaits
    /\ DECT_EVENTS # <<>>
    /\ LET ev == Head(DECT_EVENTS).event
       IN  /\ DECT_EVENTS' = Tail(DECT_EVENTS)
           /\ stale' = IF stale > 0 THEN stale - 1 ELSE 0
           /\ tainted' = (tainted \/ stale > 0)
           /\ seen' = Append(seen, ev)
           /\ IF ev.kind # Expected(pc)
              THEN /\ panic' = "init: Sequence violation"
                   /\ UNCHANGED <<pc, modem, ret>>
              ELSE IF pc = "await_Activate"
              THEN /\ pc' = "idle"
                   /\ ret' = Ret("init", "Ok", 0)
                   /\ UNCHANGED <<panic, modem>>
              ELSE \E accepted \in AcceptChoices(modem) :
                    /\ panic' = panic
                    /\ IF accepted
                       THEN /\ pc' = NextCall(pc).wait
                            /\ modem' = Request(NextCall(pc).call)
                            /\ ret' = ret
                       ELSE /\ pc' = "failed"
                            /\ modem' = modem
                            /\ ret' = Ret("init", "General", 0)
    /\ handles' = IF pc' = "idle" THEN handles + 1 ELSE handles
    /\ UNCHANGED codec_vars
    /\ UNCHANGED <<tx_params, debug_assertions, pcc, pdc, result, RECVBUF, locked, guard, level,
                   cancelled>>

\* A method of DectPhy can be called: the handle exists, no operation is in
\* flight and no live guard borrows the handle.
CanCall == panic = "none" /\ pc = "idle" /\ guard.held # "live"

\* A time_get that goes on to wait for its event after the modem refused the
\* request.
time_get_begin_unchecked ==
    /\ CanCall
    /\ \E accepted \in AcceptChoices(modem) :
        /\ pc' = "time_get"
        /\ modem' = IF accepted THEN Request("time_get") ELSE modem
        /\ ret' = Ret("time_get", "pending", 0)
    /\ seen' = <<>>
    /\ tainted' = FALSE
    /\ UNCHANGED stale
    /\ tx_params' = NoTx
    /\ UNCHANGED codec_vars
    /\ UNCHANGED <<handles, debug_assertions, pcc, pdc, result, DECT_EVENTS, RECVBUF, locked,
                   guard, panic, level, cancelled>>

\* A time_get that clears the scratch buffer like rx and rssi do.
time_get_begin_clearing ==
    /\ CanCall
    /\ \E accepted \in AcceptChoices(modem) :
        IF accepted
        THEN /\ pc' = "time_get"
             /\ modem' = Request("time_get")
             /\ ret' = Ret("time_get", "pending", 0)
        ELSE /\ pc' = "idle"
             /\ modem' = modem
             /\ ret' = Ret("time_get", "General", 0)
    /\ seen' = <<>>
    /\ tainted' = FALSE
    /\ UNCHANGED stale
    /\ tx_params' = NoTx
    /\ RECVBUF' = <<>>
    /\ UNCHANGED codec_vars
    /\ UNCHANGED <<handles, debug_assertions, pcc, pdc, result, DECT_EVENTS, locked,
                   guard, panic, level, cancelled>>

\* time_get up to its await.
time_get_begin ==
    /\ CanCall
    /\ \E accepted \in AcceptChoices(modem) :
        IF accepted
        THEN /\ pc' = "time_get"
             /\ modem' = Request("time_get")
             /\ ret' = Ret("time_get", "pending", 0)
        ELSE /\ pc' = "idle"
             /\ modem' = modem
             /\ ret' = Ret("time_get", "General", 0)
    /\ seen' = <<>>
    /\ tainted' = FALSE
    /\ UNCHANGED stale
    /\ tx_params' = NoTx
    /\ UNCHANGED codec_vars
    /\ UNCHANGED <<handles, debug_assertions, pcc, pdc, result, DECT_EVENTS, RECVBUF, locked,
                   guard, panic, level, cancelled>>

\* A time_get that returns the payload of the event instead of the time of
\* its wrapper.
time_get_match_payload(outer) ==
    IF outer.event.kind = "TimeGet"
    THEN [panic |-> "none", ret |-> Ret("time_get", "Ok", outer.event.a)]
    ELSE [panic |-> "time_get: Sequence violation", ret |-> Ret("time_get", "pending", 0)]

\* The let-else of time_get: the time of the wrapper of a TimeGet event.
time_get_match(outer) ==
    IF outer.event.kind = "TimeGet"
    THEN [panic |-> "none", ret |-> Ret("time_get", "Ok", outer.time)]
    ELSE [panic |-> "time_get: Sequence violation", ret |-> Ret("time_get", "pending", 0)]

\* The await of time_get and its return.
time_get_recv ==
    /\ panic = "none"
    /\ pc = "time_get"
    /\ DECT_EVENTS # <<>>
    /\ LET m == time_get_match(Head(DECT_EVENTS))
       IN  /\ DECT_EVENTS' = Tail(DECT_EVENTS)
           /\ stale' = IF stale > 0 THEN stale - 1 ELSE 0
           /\ tainted' = (tainted \/ stale > 0)
           /\ seen' = Append(seen, Head(DECT_EVENTS).event)
           /\ panic' = m.panic
           /\ ret' = m.ret
           /\ pc' = IF m.panic = "none" THEN "idle" ELSE pc
    /\ UNCHANGED codec_vars
    /\ UNCHANGED <<handles, tx_params, debug_assertions, pcc, pdc, result, RECVBUF, locked, guard, modem,
                   level, cancelled>>

\* A clear_recvbuf that clears without looking at the lock.
clear_recvbuf_unchecked(buf, lk) == [panic |-> "none", buf |-> <<>>]

\* A clear_recvbuf that does nothing, and says nothing, when the lock is held.
clear_recvbuf_skipping(buf, lk) ==
    IF lk THEN [panic |-> "none", buf |-> buf] ELSE [panic |-> "none", buf |-> <<>>]

\* clear_recvbuf: try_lock().expect(..), clear, drop the lock again.
clear_recvbuf(buf, lk) ==
    IF lk
    THEN [panic |-> "clear_recvbuf: Buffer in use", buf |-> buf]
    ELSE [panic |-> "none", buf |-> <<>>]

\* An rx loop that keeps waiting after Completed(Ok).
rx_loop_deaf(ev, p, d, dbg) ==
    LET Go(ctl, np, nd, code) == [ctl |-> ctl, pcc |-> np, pdc |-> nd, code |-> code]
    IN  CASE ev.kind = "Pcc" -> Go("continue", Local(TRUE, TRUE, ev.a, ev.b, 0, ""), d, 0)
          [] ev.kind = "PccError" -> Go("continue", Local(TRUE, FALSE, 0, 0, 0, ev.e), d, 0)
          [] ev.kind = "Pdc" -> Go("continue", p, Local(TRUE, TRUE, ev.a, 0, 0, ""), 0)
          [] ev.kind = "PdcError" -> Go("continue", p, Local(TRUE, FALSE, 0, 0, 0, "CrcError"), 0)
          [] ev.kind = "Completed" /\ ev.ok -> Go("continue", p, d, 0)
          [] ev.kind = "Completed" -> Go("return", p, d, ev.a)
          [] OTHER -> Go("panic", p, d, 0)

\* An rx loop that returns as soon as the payload is in, leaving Completed
\* behind in the queue.
rx_loop_early(ev, p, d, dbg) ==
    LET Go(ctl, np, nd, code) == [ctl |-> ctl, pcc |-> np, pdc |-> nd, code |-> code]
    IN  CASE ev.kind = "Pcc" -> Go("continue", Local(TRUE, TRUE, ev.a, ev.b, 0, ""), d, 0)
          [] ev.kind = "PccError" -> Go("continue", Local(TRUE, FALSE, 0, 0, 0, ev.e), d, 0)
          [] ev.kind = "Pdc" -> Go("break", p, Local(TRUE, TRUE, ev.a, 0, 0, ""), 0)
          [] ev.kind = "PdcError" -> Go("continue", p, Local(TRUE, FALSE, 0, 0, 0, "CrcError"), 0)
          [] ev.kind = "Completed" /\ ev.ok -> Go("break", p, d, 0)
          [] ev.kind = "Completed" -> Go("return", p, d, ev.a)
          [] OTHER -> Go("panic", p, d, 0)

\* One pass of the loop of rx over the event ev, with the locals p (pcc) and
\* d (pdc): ctl is "continue", "break", "return" (the ? on a phy error, code
\* is the PhyErr) or "panic".
rx_loop(ev, p, d, dbg) ==
    LET Go(ctl, np, nd, code) == [ctl |-> ctl, pcc |-> np, pdc |-> nd, code |-> code]
    IN  CASE ev.kind = "Pcc" ->
                IF dbg /\ p.set THEN Go("panic", p, d, 0)
                ELSE Go("continue", Local(TRUE, TRUE, ev.a, ev.b, 0, ""), d, 0)
          [] ev.kind = "PccError" ->
                IF dbg /\ p.set THEN Go("panic", p, d, 0)
                ELSE Go("continue", Local(TRUE, FALSE, 0, 0, 0, ev.e), d, 0)
          [] ev.kind = "Pdc" ->
                IF dbg /\ d.set THEN Go("panic", p, d, 0)
                ELSE Go("continue", p, Local(TRUE, TRUE, ev.a, 0, 0, ""), 0)
          [] ev.kind = "PdcError" ->
                IF dbg /\ d.set THEN Go("panic", p, d, 0)
                ELSE Go("continue", p, Local(TRUE, FALSE, 0, 0, 0, "CrcError"), 0)
          [] ev.kind = "Completed" /\ ev.ok -> Go("break", p, d, 0)
          [] ev.kind = "Completed" -> Go("return", p, d, ev.a)
          [] OTHER -> Go("panic", p, d, 0)

\* A RecvResult with the given indices: Err(err) when ~ok, else
\* Ok(RecvOk {pcc_time, pcc_len, pdc_len}) with pdc_len = Ok(pdc_len) when
\* pdc_ok, else Err(pdc_err).
RecvResult(ok, err, pcc_time, pcc_len, pdc_ok, pdc_len, pdc_err) ==
    [kind |-> "RecvResult", held |-> "live", ok |-> ok, err |-> err,
     pcc_time |-> pcc_time, pcc_len |-> pcc_len, pdc_ok |-> pdc_ok, pdc_len |-> pdc_len,
     pdc_err |-> pdc_err, lo |-> 0, hi |-> 0]

\* An rx match that marks a PDC that did not arrive as a CRC error.
\* An rx match that answers a PCC error with the error whatever came after.
rx_result_pcc_error_first(p, d) ==
    CASE ~p.set /\ ~d.set -> [out |-> "None", g |-> NoGuard]
      [] p.set /\ ~p.ok ->
            [out |-> "Some", g |-> RecvResult(FALSE, p.e, 0, 0, FALSE, 0, "")]
      [] p.set /\ p.ok /\ ~d.set ->
            [out |-> "Some", g |-> RecvResult(TRUE, "", p.a, p.b, FALSE, 0, "NotReceived")]
      [] p.set /\ p.ok /\ d.set ->
            [out |-> "Some", g |-> RecvResult(TRUE, "", p.a, p.b, d.ok, d.a, d.e)]
      [] OTHER -> [out |-> "panic", g |-> NoGuard]

rx_result_crc(p, d) ==
    CASE ~p.set /\ ~d.set -> [out |-> "None", g |-> NoGuard]
      [] p.set /\ ~p.ok /\ ~d.set ->
            [out |-> "Some", g |-> RecvResult(FALSE, p.e, 0, 0, FALSE, 0, "")]
      [] p.set /\ p.ok /\ ~d.set ->
            [out |-> "Some", g |-> RecvResult(TRUE, "", p.a, p.b, FALSE, 0, "CrcError")]
      [] p.set /\ p.ok /\ d.set ->
            [out |-> "Some", g |-> RecvResult(TRUE, "", p.a, p.b, d.ok, d.a, d.e)]
      [] OTHER -> [out |-> "panic", g |-> NoGuard]

\* An rx match that takes a PDC without a PCC for silence.
rx_result_lenient(p, d) ==
    CASE ~p.set -> [out |-> "None", g |-> NoGuard]
      [] p.set /\ ~p.ok /\ ~d.set ->
            [out |-> "Some", g |-> RecvResult(FALSE, p.e, 0, 0, FALSE, 0, "")]
      [] p.set /\ p.ok /\ ~d.set ->
            [out |-> "Some", g |-> RecvResult(TRUE, "", p.a, p.b, FALSE, 0, "NotReceived")]
      [] p.set /\ p.ok /\ d.set ->
            [out |-> "Some", g |-> RecvResult(TRUE, "", p.a, p.b, d.ok, d.a, d.e)]
      [] OTHER -> [out |-> "panic", g |-> NoGuard]

\* The match (pcc, pdc) after the loop of rx: out is "None", "Some" (g the
\* guard to return) or "panic".
rx_result(p, d) ==
    CASE ~p.set /\ ~d.set -> [out |-> "None", g |-> NoGuard]
      [] p.set /\ ~p.ok /\ ~d.set ->
            [out |-> "Some", g |-> RecvResult(FALSE, p.e, 0, 0, FALSE, 0, "")]
      [] p.set /\ p.ok /\ ~d.set ->
            [out |-> "Some", g |-> RecvResult(TRUE, "", p.a, p.b, FALSE, 0, "NotReceived")]
      [] p.set /\ p.ok /\ d.set ->
            [out |-> "Some", g |-> RecvResult(TRUE, "", p.a, p.b, d.ok, d.a, d.e)]
      [] OTHER -> [out |-> "panic", g |-> NoGuard]

\* rx up to its first await: clear the buffer, issue the receive request.
rx_begin ==
    /\ CanCall
    /\ seen' = <<>>
    /\ tainted' = FALSE
    /\ UNCHANGED stale
    /\ LET c == clear_recvbuf(RECVBUF, locked)
       IN  IF c.panic # "none"
           THEN /\ panic' = c.panic
                /\ ret' = Ret("rx", "pending", 0)
                /\ UNCHANGED <<pc, modem, RECVBUF>>
           ELSE \E accepted \in AcceptChoices(modem) :
                /\ RECVBUF' = c.buf
                /\ panic' = panic
                /\ IF accepted
                   THEN /\ pc' = "rx"
                        /\ modem' = Request("rx")
                        /\ ret' = Ret("rx", "pending", 0)
                   ELSE /\ pc' = "idle"
                        /\ modem' = modem
                        /\ ret' = Ret("rx", "General", 0)
    /\ pcc' = None
    /\ pdc' = None
    /\ tx_params' = NoTx
    /\ UNCHANGED codec_vars
    /\ UNCHANGED <<handles, debug_assertions, result, DECT_EVENTS, locked, guard, level, cancelled>>

\* One await of the loop of rx; on Completed, the rest of rx.
rx_recv ==
    /\ panic = "none"
    /\ pc = "rx"
    /\ DECT_EVENTS # <<>>
    /\ LET ev == Head(DECT_EVENTS).event
           l == rx_loop(ev, pcc, pdc, debug_assertions)
           r == rx_result(l.pcc, l.pdc)
       IN  /\ DECT_EVENTS' = Tail(DECT_EVENTS)
           /\ stale' = IF stale > 0 THEN stale - 1 ELSE 0
           /\ tainted' = (tainted \/ stale > 0)
           /\ seen' = Append(seen, ev)
           /\ CASE l.ctl = "continue" ->
                    /\ pcc' = l.pcc
                    /\ pdc' = l.pdc
                    /\ UNCHANGED <<pc, ret, panic, locked, guard>>
                [] l.ctl = "return" ->
                    /\ pc' = "idle"
                    /\ ret' = Ret("rx", "Phy", l.code)
                    /\ pcc' = None
                    /\ pdc' = None
                    /\ UNCHANGED <<panic, locked, guard>>
                [] l.ctl = "break" /\ r.out = "None" ->
                    /\ pc' = "idle"
                    /\ ret' = Ret("rx", "None", 0)
                    /\ pcc' = None
                    /\ pdc' = None
                    /\ UNCHANGED <<panic, locked, guard>>
                [] l.ctl = "break" /\ r.out = "Some" /\ ~locked ->
                    /\ pc' = "idle"
                    /\ ret' = Ret("rx", "Some", 0)
                    /\ locked' = TRUE
                    /\ guard' = r.g
                    /\ pcc' = None
                    /\ pdc' = None
                    /\ UNCHANGED panic
                [] l.ctl = "break" /\ r.out = "Some" /\ locked ->
                    /\ panic' = "rx: Was checked before"
                    /\ UNCHANGED <<pc, ret, pcc, pdc, locked, guard>>
                [] OTHER ->
                    /\ panic' = "rx: Sequence violation"
                    /\ UNCHANGED <<pc, ret, pcc, pdc, locked, guard>>
    /\ UNCHANGED codec_vars
    /\ UNCHANGED <<handles, tx_params, debug_assertions, result, RECVBUF, modem, level, cancelled>>

\* An RssiResult over the range lo..hi of the buffer.
RssiResult(lo, hi) ==
    [kind |-> "RssiResult", held |-> "live", ok |-> TRUE, err |-> "", pcc_time |-> 0,
     pcc_len |-> 0, pdc_ok |-> FALSE, pdc_len |-> 0, pdc_err |-> "", lo |-> lo, hi |-> hi]

\* An rssi loop that takes a Completed(Ok) without a report for an empty
\* measurement.
rssi_loop_empty(ev, res, dbg) ==
    LET Go(ctl, nr, code) == [ctl |-> ctl, result |-> nr, code |-> code]
    IN  CASE ev.kind = "Rssi" ->
                IF dbg /\ res.set THEN Go("panic", res, 0)
                ELSE IF ~ev.ok THEN Go("panic", res, 0)
                ELSE Go("continue", Local(TRUE, TRUE, ev.a, ev.b, ev.c, ""), 0)
          [] ev.kind = "Completed" /\ ev.ok /\ ~res.set ->
                Go("break", Local(TRUE, TRUE, 0, 0, 0, ""), 0)
          [] ev.kind = "Completed" /\ ev.ok -> Go("break", res, 0)
          [] ev.kind = "Completed" -> Go("return", res, ev.a)
          [] OTHER -> Go("panic", res, 0)

\* One pass of the loop of rssi over the event ev, with the local res (result).
rssi_loop(ev, res, dbg) ==
    LET Go(ctl, nr, code) == [ctl |-> ctl, result |-> nr, code |-> code]
    IN  CASE ev.kind = "Rssi" ->
                IF dbg /\ res.set THEN Go("panic", res, 0)
                ELSE IF ~ev.ok THEN Go("panic", res, 0)
                ELSE Go("continue", Local(TRUE, TRUE, ev.a, ev.b, ev.c, ""), 0)
          [] ev.kind = "Completed" /\ ev.ok -> Go("break", res, 0)
          [] ev.kind = "Completed" -> Go("return", res, ev.a)
          [] OTHER -> Go("panic", res, 0)

\* rssi up to its first await: clear the buffer, issue the RSSI request.
rssi_begin ==
    /\ CanCall
    /\ seen' = <<>>
    /\ tainted' = FALSE
    /\ UNCHANGED stale
    /\ LET c == clear_recvbuf(RECVBUF, locked)
       IN  IF c.panic # "none"
           THEN /\ panic' = c.panic
                /\ ret' = Ret("rssi", "pending", 0)
                /\ UNCHANGED <<pc, modem, RECVBUF>>
           ELSE \E accepted \in AcceptChoices(modem) :
                /\ RECVBUF' = c.buf
                /\ panic' = panic
                /\ IF accepted
                   THEN /\ pc' = "rssi"
                        /\ modem' = Request("rssi")
                        /\ ret' = Ret("rssi", "pending", 0)
                   ELSE /\ pc' = "idle"
                        /\ modem' = modem
                        /\ ret' = Ret("rssi", "General", 0)
    /\ result' = None
    /\ tx_params' = NoTx
    /\ UNCHANGED codec_vars
    /\ UNCHANGED <<handles, debug_assertions, pcc, pdc, DECT_EVENTS, locked, guard, level,
                   cancelled>>

\* One await of the loop of rssi; on Completed, the rest of rssi.
rssi_recv ==
    /\ panic = "none"
    /\ pc = "rssi"
    /\ DECT_EVENTS # <<>>
    /\ LET ev == Head(DECT_EVENTS).event
           l == rssi_loop(ev, result, debug_assertions)
       IN  /\ DECT_EVENTS' = Tail(DECT_EVENTS)
           /\ stale' = IF stale > 0 THEN stale - 1 ELSE 0
           /\ tainted' = (tainted \/ stale > 0)
           /\ seen' = Append(seen, ev)
           /\ CASE l.ctl = "continue" ->
                    /\ result' = l.result
                    /\ UNCHANGED <<pc, ret, panic, locked, guard>>
                [] l.ctl = "return" ->
                    /\ pc' = "idle"
                    /\ ret' = Ret("rssi", "Phy", l.code)
                    /\ result' = None
                    /\ UNCHANGED <<panic, locked, guard>>
                [] l.ctl = "break" /\ l.result.set /\ ~locked ->
                    /\ pc' = "idle"
                    /\ ret' = Ret("rssi", "Ok", l.result.a)
                    /\ locked' = TRUE
                    /\ guard' = RssiResult(l.result.b, l.result.c)
                    /\ result' = None
                    /\ UNCHANGED panic
                [] l.ctl = "break" /\ l.result.set /\ locked ->
                    /\ panic' = "rssi: Was checked before"
                    /\ UNCHANGED <<pc, ret, result, locked, guard>>
                [] OTHER ->
                    /\ panic' = "rssi: Sequence violation"
                    /\ UNCHANGED <<pc, ret, result, locked, guard>>
    /\ UNCHANGED codec_vars
    /\ UNCHANGED <<handles, tx_params, debug_assertions, pcc, pdc, RECVBUF, modem, level, cancelled>>

\* The lengths of the pcc argument and the network ids tx is called with.
TxPccLens == {0, 5, 7, 10, 11}

TxNetworkIds == {0, 1}

\* A tx that hands a zero network id on to the modem.
tx_check_any_id(pcc_len, network_id) ==
    CASE pcc_len \notin {5, 10} ->
            [out |-> "panic", phy_type |-> 0]
      [] OTHER ->
            [out |-> "call", phy_type |-> IF pcc_len = 5 THEN 0 ELSE 1]

\* A tx that takes every pcc longer than 5 bytes for a type 2 header.
tx_check_by_size(pcc_len, network_id) ==
    CASE pcc_len < 5 ->
            [out |-> "panic", phy_type |-> 0]
      [] network_id = 0 ->
            [out |-> "UsageError", phy_type |-> IF pcc_len = 5 THEN 0 ELSE 1]
      [] OTHER ->
            [out |-> "call", phy_type |-> IF pcc_len = 5 THEN 0 ELSE 1]

\* The checks of tx before its modem call: the phy_type by the length of pcc
\* (or a panic), then the usage error on network id 0.
tx_check(pcc_len, network_id) ==
    CASE pcc_len \notin {5, 10} ->
            [out |-> "panic", phy_type |-> 0]
      [] network_id = 0 ->
            [out |-> "UsageError", phy_type |-> IF pcc_len = 5 THEN 0 ELSE 1]
      [] OTHER ->
            [out |-> "call", phy_type |-> IF pcc_len = 5 THEN 0 ELSE 1]

\* tx up to its await.
tx_begin ==
    /\ CanCall
    /\ seen' = <<>>
    /\ tainted' = FALSE
    /\ UNCHANGED stale
    /\ \E pcc_len \in TxPccLens, network_id \in TxNetworkIds :
        LET c == tx_check(pcc_len, network_id)
        IN  CASE c.out = "panic" ->
                    /\ panic' = "tx: Not a valid header length"
                    /\ ret' = Ret("tx", "pending", 0)
                    /\ tx_params' = TxParams(pcc_len, network_id, FALSE, 0)
                    /\ UNCHANGED <<pc, modem>>
              [] c.out = "UsageError" ->
                    /\ ret' = Ret("tx", "Usage", 0)
                    /\ tx_params' = TxParams(pcc_len, network_id, FALSE, 0)
                    /\ UNCHANGED <<pc, modem, panic>>
              [] OTHER ->
                    \E accepted \in AcceptChoices(modem) :
                        /\ panic' = panic
                        /\ tx_params' = TxParams(pcc_len, network_id, TRUE, c.phy_type)
                        /\ IF accepted
                           THEN /\ pc' = "tx"
                                /\ modem' = Request("tx")
                                /\ ret' = Ret("tx", "pending", 0)
                           ELSE /\ pc' = "idle"
                                /\ modem' = modem
                                /\ ret' = Ret("tx", "General", 0)
    /\ UNCHANGED codec_vars
    /\ UNCHANGED <<handles, debug_assertions, pcc, pdc, result, DECT_EVENTS, RECVBUF, locked,
                   guard, level, cancelled>>

\* A tx match that takes a failing Completed for a sequence violation.
tx_match_strict(ev) ==
    IF ev.kind = "Completed" /\ ev.ok
    THEN [panic |-> "none", ret |-> Ret("tx", "Ok", 0)]
    ELSE [panic |-> "tx: Sequence violation", ret |-> Ret("tx", "pending", 0)]

\* The match of tx on the event it awaited.
tx_match(ev) ==
    IF ev.kind = "Completed"
    THEN [panic |-> "none",
          ret |-> IF ev.ok THEN Ret("tx", "Ok", 0) ELSE Ret("tx", "Phy", ev.a)]
    ELSE [panic |-> "tx: Sequence violation", ret |-> Ret("tx", "pending", 0)]

\* The await of tx and its return.
tx_recv ==
    /\ panic = "none"
    /\ pc = "tx"
    /\ DECT_EVENTS # <<>>
    /\ LET m == tx_match(Head(DECT_EVENTS).event)
       IN  /\ DECT_EVENTS' = Tail(DECT_EVENTS)
           /\ stale' = IF stale > 0 THEN stale - 1 ELSE 0
           /\ tainted' = (tainted \/ stale > 0)
           /\ seen' = Append(seen, Head(DECT_EVENTS).event)
           /\ panic' = m.panic
           /\ ret' = m.ret
           /\ pc' = IF m.panic = "none" THEN "idle" ELSE pc
    /\ UNCHANGED codec_vars
    /\ UNCHANGED <<handles, tx_params, debug_assertions, pcc, pdc, result, RECVBUF, locked, guard, modem,
                   level, cancelled>>

----------------------------------------------------------------------------
(* The result guards *)

\* What an accessor returns: Ok(bytes) or Ok(time), Err(err) (with inner the
\* PccError inside a PdcError::PccError), or a panic on slicing.
Got(ok, bytes, time, err, inner) ==
    [ok |-> ok, bytes |-> bytes, time |-> time, err |-> err, inner |-> inner]

\* RecvResult::pcc_time
pcc_time(g) ==
    IF g.ok THEN Got(TRUE, <<>>, g.pcc_time, "", "") ELSE Got(FALSE, <<>>, 0, g.err, "")

\* A pcc accessor that answers a PCC error with an empty header.
RecvResult_pcc_empty(g, data) ==
    IF ~g.ok THEN Got(TRUE, <<>>, 0, "", "")
    ELSE IF g.pcc_len > Len(data) THEN Got(FALSE, <<>>, 0, "panic", "")
    ELSE Got(TRUE, SubSeq(data, 1, g.pcc_len), 0, "", "")

\* RecvResult::pcc: &self.data[..pcc_len]
RecvResult_pcc(g, data) ==
    IF ~g.ok THEN Got(FALSE, <<>>, 0, g.err, "")
    ELSE IF g.pcc_len > Len(data) THEN Got(FALSE, <<>>, 0, "panic", "")
    ELSE Got(TRUE, SubSeq(data, 1, g.pcc_len), 0, "", "")

\* A pdc accessor that slices from the start of the buffer.
RecvResult_pdc_from0(g, data) ==
    IF ~g.ok THEN Got(FALSE, <<>>, 0, "PccError", g.err)
    ELSE IF ~g.pdc_ok THEN Got(FALSE, <<>>, 0, g.pdc_err, "")
    ELSE IF g.pdc_len > Len(data) THEN Got(FALSE, <<>>, 0, "OutOfSpace", "")
    ELSE Got(TRUE, SubSeq(data, 1, g.pdc_len), 0, "", "")

\* RecvResult::pdc: self.data.get(start..start + len).ok_or(OutOfSpace)
RecvResult_pdc(g, data) ==
    IF ~g.ok THEN Got(FALSE, <<>>, 0, "PccError", g.err)
    ELSE IF ~g.pdc_ok THEN Got(FALSE, <<>>, 0, g.pdc_err, "")
    ELSE IF g.pcc_len + g.pdc_len > Len(data) THEN Got(FALSE, <<>>, 0, "OutOfSpace", "")
    ELSE Got(TRUE, SubSeq(data, g.pcc_len + 1, g.pcc_len + g.pdc_len), 0, "", "")

\* An RssiResult::data that leaves out the first sample of the range.
RssiResult_data_tail(g, data) ==
    IF g.lo > g.hi \/ g.hi > Len(data) THEN Got(FALSE, <<>>, 0, "panic", "")
    ELSE Got(TRUE, SubSeq(data, g.lo + 2, g.hi), 0, "", "")

\* RssiResult::data: &self.0[self.1.clone()]
RssiResult_data(g, data) ==
    IF g.lo > g.hi \/ g.hi > Len(data) THEN Got(FALSE, <<>>, 0, "panic", "")
    ELSE Got(TRUE, SubSeq(data, g.lo + 1, g.hi), 0, "", "")

\* The caller drops the guard: the MutexGuard in it releases the lock.
drop_guard ==
    /\ panic = "none"
    /\ guard.held = "live"
    /\ guard' = NoGuard
    /\ locked' = FALSE
    /\ UNCHANGED codec_vars
    /\ UNCHANGED <<handles, tx_params, debug_assertions, pc, pcc, pdc, result, DECT_EVENTS, RECVBUF, ret,
                   panic, modem, seen, level, cancelled, stale, tainted>>

\* The caller leaks the guard (core::mem::forget): its borrow of the handle
\* ends, the MutexGuard in it is never dropped.
forget_guard ==
    /\ panic = "none"
    /\ guard.held = "live"
    /\ guard' = [guard EXCEPT !.held = "leaked"]
    /\ UNCHANGED codec_vars
    /\ UNCHANGED <<handles, tx_params, debug_assertions, pc, pcc, pdc, result, DECT_EVENTS, RECVBUF, locked,
                   ret, panic, modem, seen, level, cancelled, stale, tainted>>

\* The caller drops the future of a suspended rx, rssi, tx or time_get (once
\* in a run).
cancel ==
    /\ panic = "none"
    /\ ~cancelled
    /\ level = 0
    /\ pc \in {"rx", "rssi", "tx", "time_get"}
    /\ pc' = "idle"
    /\ ret' = Ret(pc, "cancelled", 0)
    /\ pcc' = None
    /\ pdc' = None
    /\ result' = None
    /\ cancelled' = TRUE
    /\ stale' = Len(DECT_EVENTS)
    /\ modem' = [modem EXCEPT !.orphan = (modem.op # "none")]
    /\ UNCHANGED codec_vars
    /\ UNCHANGED <<handles, tx_params, debug_assertions, DECT_EVENTS, RECVBUF, locked, guard, panic, seen,
                   level, tainted>>

----------------------------------------------------------------------------
(* The MAC codec: ts-103-636-numbers and ts-103-636-utils *)

U8_MAX == 255

U16_MAX == 65535

\* Bitwise and, or of two naturals.
RECURSIVE BitAnd(_, _)
BitAnd(a, b) ==
    IF a = 0 \/ b = 0 THEN 0
    ELSE (a % 2) * (b % 2) + 2 * BitAnd(a \div 2, b \div 2)

RECURSIVE BitOr(_, _)
BitOr(a, b) ==
    IF a = 0 THEN b
    ELSE IF b = 0 THEN a
    ELSE Max(a % 2, b % 2) + 2 * BitOr(a \div 2, b \div 2)

\* x << k and x >> k on a u8.
Shl8(x, k) == (x * 2 ^ k) % 256

Shr8(x, k) == x \div 2 ^ k

\* numbers::mac_pdu::VERSION, header_type and mux_ext
VERSION == 0

DATA_MAC_PDU == 0

BEACON == 1

UNICAST == 2

RD_BROADCAST == 3

ESCAPE == 15

NO_LENGTH_FIELD == 0

LENGTH_8BIT == 1

LENGTH_16BIT == 2

SHORT_IE == 3

\* Result values of the codec: Ok(v) and Err(e).
Ok(v) == [ok |-> TRUE, v |-> v, e |-> "none"]

Err(e) == [ok |-> FALSE, v |-> <<>>, e |-> e]

\* IEType6bit::try_from(u8) and u8::from(IEType6bit): the type is its inner u8.
IEType6bit_try_from(value) ==
    IF BitAnd(value, 255 - 63) = 0 THEN Ok(value) ELSE Err("ExcessiveBitsSet")

IEType6bit_into_u8(type_) == type_

IEType5bit_len_low(type_) == type_ % 2

\* IEType5bit: the type is its inner u8, the length bit and the 5 bit value.
IEType5bit_len(type_) == Shr8(type_, 5)

IEType5bit_value(type_) == BitAnd(type_, 31)

IEType5bit_composite(type_) == type_

IEType5bit_try_from_composite(composite) ==
    IF BitAnd(composite, 255 - 63) = 0 THEN Ok(composite) ELSE Err("ExcessiveBitsSet")

IEType5bit_try_from_len_and_value_le(len, value) ==
    IF len > 2 \/ BitAnd(value, 255 - 31) # 0 THEN Err("ExcessiveBitsSet")
    ELSE Ok(BitOr(Shl8(len % 256, 5), value))

IEType5bit_try_from_len_and_value(len, value) ==
    IF len >= 2 \/ BitAnd(value, 255 - 31) # 0 THEN Err("ExcessiveBitsSet")
    ELSE Ok(BitOr(Shl8(len % 256, 5), value))

\* An InformationElement: its head byte and its payload.
InformationElement(head, payload) == [head |-> head, payload |-> payload]

new_6bit_with_length_lt(type_, payload) ==
    IF Len(payload) > U16_MAX THEN Err("InputLengthError")
    ELSE IF Len(payload) < U8_MAX
    THEN Ok(InformationElement(BitOr(IEType6bit_into_u8(type_), Shl8(LENGTH_8BIT, 6)),
                               payload))
    ELSE Ok(InformationElement(BitOr(IEType6bit_into_u8(type_), Shl8(LENGTH_16BIT, 6)),
                               payload))

\* InformationElement::new_6bit_with_length
new_6bit_with_length(type_, payload) ==
    IF Len(payload) > U16_MAX THEN Err("InputLengthError")
    ELSE IF Len(payload) <= U8_MAX
    THEN Ok(InformationElement(BitOr(IEType6bit_into_u8(type_), Shl8(LENGTH_8BIT, 6)),
                               payload))
    ELSE Ok(InformationElement(BitOr(IEType6bit_into_u8(type_), Shl8(LENGTH_16BIT, 6)),
                               payload))

\* InformationElement::new_5bit
new_5bit(type_, payload) ==
    IF Len(payload) # IEType5bit_len(type_) THEN Err("InputLengthError")
    ELSE Ok(InformationElement(BitOr(IEType5bit_composite(type_), Shl8(SHORT_IE, 6)),
                               payload))

\* AnyIeType: which registry, and the number in it.
AnyIeType(registry, number) == [registry |-> registry, number |-> number]

\* InformationElement::ie_number
ie_number(ie) ==
    LET low_6_bits == BitAnd(ie.head, 63)
    IN  IF Shr8(ie.head, 6) = SHORT_IE
        THEN AnyIeType("Type5bit", IEType5bit_try_from_composite(low_6_bits).v)
        ELSE AnyIeType("Type6bit", IEType6bit_try_from(low_6_bits).v)

\* InformationElement::payload
payload(ie) == ie.payload

split_off_short(sl, n) ==
    IF n > Len(sl) THEN [some |-> TRUE, front |-> sl, rest |-> <<>>]
    ELSE [some |-> TRUE, front |-> SubSeq(sl, 1, n), rest |-> SubSeq(sl, n + 1, Len(sl))]

\* slice::split_off(..n): the first n bytes and the rest, or None.
split_off(sl, n) ==
    IF n > Len(sl) THEN [some |-> FALSE, front |-> <<>>, rest |-> sl]
    ELSE [some |-> TRUE, front |-> SubSeq(sl, 1, n), rest |-> SubSeq(sl, n + 1, Len(sl))]

length_field_le(ie) ==
    LET n == Len(ie.payload)
    IN  IF Shr8(ie.head, 6) = LENGTH_16BIT
        THEN [out |-> "Ok", bytes |-> <<n % 256, (n \div 256) % 256>>]
        ELSE [out |-> "Ok", bytes |-> IF Shr8(ie.head, 6) = LENGTH_8BIT THEN <<n % 256>> ELSE <<>>]

\* The length field serialize writes for an IE: nothing, one byte or two bytes
\* big endian; "panic" when the payload length does not fit the field.
length_field(ie) ==
    LET mac_ext == Shr8(ie.head, 6)
        n == Len(ie.payload)
    IN  CASE mac_ext = LENGTH_8BIT ->
                IF n > U8_MAX THEN [out |-> "panic", bytes |-> <<>>]
                ELSE [out |-> "Ok", bytes |-> <<n>>]
          [] mac_ext = LENGTH_16BIT ->
                IF n > U16_MAX THEN [out |-> "panic", bytes |-> <<>>]
                ELSE [out |-> "Ok", bytes |-> <<n \div 256, n % 256>>]
          [] OTHER -> [out |-> "Ok", bytes |-> <<>>]

\* Of a writer: it never fills up, or it never fails.
Unlimited == 0 - 1

\* A writer (embedded_io::Write): the bytes it has received, the room left in
\* it and the number of write calls it serves before it fails.
Writer(got, room, calls) == [got |-> got, room |-> room, calls |-> calls]

\* Write::write of buf: a failing writer returns its error; a writer with
\* room takes as many bytes as fit and returns their number (Ok(n) with
\* n < buf.len() when it fills up); a full writer returns an error for a
\* buffer that is not empty.
write(wr, buf) ==
    IF wr.calls = 0 THEN [ok |-> FALSE, n |-> 0, wr |-> wr, e |-> "WriterError"]
    ELSE
    LET amt == IF wr.room = Unlimited \/ Len(buf) <= wr.room THEN Len(buf) ELSE wr.room
    IN  IF buf # <<>> /\ amt = 0
        THEN [ok |-> FALSE, n |-> 0, wr |-> wr, e |-> "Full"]
        ELSE [ok |-> TRUE, n |-> amt,
              wr |-> Writer(wr.got \o SubSeq(buf, 1, amt),
                            IF wr.room = Unlimited THEN Unlimited ELSE wr.room - amt,
                            IF wr.calls = Unlimited THEN Unlimited ELSE wr.calls - 1),
              e |-> "none"]

\* InformationElement::serialize into the writer wr: the head, the length
\* field for MAC-ext 01 and 10, the payload, each with one w.write(..) whose
\* returned count is dropped.
serialize_into(ie, wr) ==
    LET mac_ext == Shr8(ie.head, 6)
        f == length_field(ie)
        r1 == write(wr, <<ie.head>>)
        r2 == IF mac_ext \in {LENGTH_8BIT, LENGTH_16BIT} THEN write(r1.wr, f.bytes)
              ELSE [ok |-> TRUE, n |-> 0, wr |-> r1.wr, e |-> "none"]
        r3 == write(r2.wr, ie.payload)
    IN  IF ~r1.ok THEN [out |-> "Err", e |-> r1.e, wr |-> r1.wr]
        ELSE IF f.out = "panic" THEN [out |-> "panic", e |-> "none", wr |-> r1.wr]
        ELSE IF ~r2.ok THEN [out |-> "Err", e |-> r2.e, wr |-> r2.wr]
        ELSE IF ~r3.ok THEN [out |-> "Err", e |-> r3.e, wr |-> r3.wr]
        ELSE [out |-> "Ok", e |-> "none", wr |-> r3.wr]

\* InformationElement::serialize into a writer that takes every byte it is
\* given: sink is what the writer holds before, the result what it holds after.
serialize(ie, sink) ==
    LET r == serialize_into(ie, Writer(sink, Unlimited, Unlimited))
    IN  [out |-> r.out, w |-> r.wr.got]

type_length_zero(ie_type) == [some |-> TRUE, len |-> 0]

\* The length parse has for an IE of MAC-ext 00 from its type: an Option<u16>
\* that is None for every type.
type_length(ie_type) == [some |-> FALSE, len |-> 0]

\* InformationElement::parse: the result and the slice left in *data.
parse(input) ==
    IF input = <<>> THEN [res |-> Err("ParsingError"), rest |-> input]
    ELSE
    LET head == Head(input)
        d1 == Tail(input)
        mac_ext == Shr8(head, 6)
        Fail(rest) == [res |-> Err("ParsingError"), rest |-> rest]
        Payload(len, d) ==
            LET sp == split_off(d, len)
            IN  IF sp.some
                THEN [res |-> Ok(InformationElement(head, sp.front)), rest |-> sp.rest]
                ELSE Fail(d)
    IN  CASE mac_ext = NO_LENGTH_FIELD ->
                IF type_length(BitAnd(head, 63)).some
                THEN Payload(type_length(BitAnd(head, 63)).len, d1)
                ELSE Fail(d1)
          [] mac_ext = LENGTH_8BIT ->
                IF d1 = <<>> THEN Fail(d1) ELSE Payload(Head(d1), Tail(d1))
          [] mac_ext = LENGTH_16BIT ->
                IF d1 = <<>> THEN Fail(d1)
                ELSE IF Tail(d1) = <<>> THEN Fail(Tail(d1))
                ELSE Payload(BitOr(Head(d1) * 256, Head(Tail(d1))), Tail(Tail(d1)))
          [] OTHER -> Payload(BitAnd(Shr8(head, 5), 1), d1)

parse_stream_next_peek(input) ==
    IF input = <<>> THEN [item |-> "None", res |-> Err("none"), rest |-> input]
    ELSE LET r == parse(input)
         IN  IF r.res.ok THEN [item |-> "Some", res |-> r.res, rest |-> input]
             ELSE [item |-> "Some", res |-> r.res, rest |-> <<>>]

parse_stream_next_keep(input) ==
    IF input = <<>> THEN [item |-> "None", res |-> Err("none"), rest |-> input]
    ELSE [item |-> "Some", res |-> parse(input).res, rest |-> parse(input).rest]

\* One next() of the iterator of parse_stream over the remaining input:
\* item is "None", or the Some(Ok(ie)) or Some(Err(e)) in res.
parse_stream_next(input) ==
    IF input = <<>> THEN [item |-> "None", res |-> Err("none"), rest |-> input]
    ELSE LET r == parse(input)
         IN  IF r.res.ok THEN [item |-> "Some", res |-> r.res, rest |-> r.rest]
             ELSE [item |-> "Some", res |-> r.res, rest |-> <<>>]

version_1bit(head) == BitAnd(Shr8(head, 6), 1)

mac_header_type_3bit(head) == BitAnd(head, 7)

\* MacHeaderType: version, mac_security and mac_header_type of the first byte.
version(head) == Shr8(head, 6)

mac_security(head) == BitAnd(Shr8(head, 4), 3)

mac_header_type(head) == BitAnd(head, 15)

\* A u32, kept as its two 16 bit halves: the value is hi * 2^16 + lo.
U32(hi, lo) == [hi |-> hi, lo |-> lo]

\* u32::from_be_bytes of 4 bytes.
from_be_bytes(bytes) == U32(bytes[1] * 256 + bytes[2], bytes[3] * 256 + bytes[4])

\* Beacon::network_id and Beacon::transmitter_address of the 7 subheader bytes.
network_id(sub) == from_be_bytes(<<0, sub[1], sub[2], sub[3]>>)

transmitter_address(sub) == from_be_bytes(SubSeq(sub, 4, 7))

\* A Header: the first byte, the variant of the common header with its
\* bytes, and the tail.
Header(head, variant, sub, tail) ==
    [head |-> head, variant |-> variant, sub |-> sub, tail |-> tail]

NoHeader == [ok |-> FALSE, v |-> Header(0, "none", <<>>, <<>>), e |-> "not parsed"]

\* Header::parse
Header_parse(input) ==
    IF input = <<>> THEN [ok |-> FALSE, v |-> NoHeader.v, e |-> "ParsingError"]
    ELSE
    LET head == Head(input)
        rest == Tail(input)
        Fail == [ok |-> FALSE, v |-> NoHeader.v, e |-> "ParsingError"]
        Common(variant, width) ==
            LET sp == split_off(rest, width)
            IN  IF ~sp.some THEN Fail
                ELSE IF Len(sp.front) # width
                THEN [ok |-> FALSE, v |-> NoHeader.v, e |-> "panic"]
                ELSE [ok |-> TRUE, v |-> Header(head, variant, sp.front, sp.rest),
                      e |-> "none"]
    IN  IF version(head) # VERSION THEN Fail
        ELSE CASE mac_header_type(head) = DATA_MAC_PDU -> Common("DataMacPdu", 2)
               [] mac_header_type(head) = BEACON -> Common("Beacon", 7)
               [] mac_header_type(head) = UNICAST -> Common("Unicast", 10)
               [] mac_header_type(head) = RD_BROADCAST -> Common("RdBroadcast", 6)
               [] OTHER -> Fail

\* The result of an IE constructor call: the function, the type and the
\* payload length it was called with, and the head of the IE or the error.
Made(fn, type_, len, r) ==
    [fn |-> fn, type_ |-> type_, len |-> len, ok |-> r.ok,
     head |-> IF r.ok THEN r.v.head ELSE 0, e |-> r.e]

NoMade == Made("none", 0, 0, Err("none"))

\* What a next() of parse_stream returned: None, Some(Ok(ie)) or Some(Err(_)).
Item(r) ==
    [item |-> r.item, ok |-> r.res.ok,
     ie |-> IF r.res.ok THEN r.res.v ELSE InformationElement(0, <<>>)]

\* The payload of n bytes the program hands to a constructor.
IePayload(n) == [i \in 1..n |-> (7 * i + n) % 256]

\* The calls of new_6bit_with_length the program makes: the type and the
\* length of the payload.
Calls6 ==
    {<<t, n>> : t \in {9, 63}, n \in {0, SmallLen, U8_MAX, U8_MAX + 1}}
    \cup {<<9, U16_MAX>>, <<9, U16_MAX + 1>>}

\* The calls of new_5bit: the type (its composite) and the length of the
\* payload.
Calls5 == {<<1, 0>>, <<1, 1>>, <<33, 0>>, <<33, 1>>, <<33, 2>>, <<62, 1>>}

\* The program builds an IE with new_6bit_with_length and, given one,
\* serializes it into the writer.
build_6bit ==
    /\ cpc = "build"
    /\ Len(ies) < MaxIes
    /\ \E c \in Calls6 :
        LET r == new_6bit_with_length(c[1], IePayload(c[2]))
        IN  /\ made' = Made("new_6bit_with_length", c[1], c[2], r)
            /\ IF r.ok
               THEN /\ ies' = Append(ies, r.v)
                    /\ w' = serialize(r.v, w).w
                    /\ cpc' = IF serialize(r.v, w).out = "panic" THEN "panic" ELSE cpc
               ELSE UNCHANGED <<ies, w, cpc>>
    /\ UNCHANGED <<stream, items, buffer, parsed>>
    /\ UNCHANGED written
    /\ UNCHANGED driver_vars

\* The program builds an IE with new_5bit and, given one, serializes it into
\* the writer.
build_5bit ==
    /\ cpc = "build"
    /\ Len(ies) < MaxIes
    /\ \E c \in Calls5 :
        LET r == new_5bit(c[1], IePayload(c[2]))
        IN  /\ made' = Made("new_5bit", c[1], c[2], r)
            /\ IF r.ok
               THEN /\ ies' = Append(ies, r.v)
                    /\ w' = serialize(r.v, w).w
                    /\ cpc' = IF serialize(r.v, w).out = "panic" THEN "panic" ELSE cpc
               ELSE UNCHANGED <<ies, w, cpc>>
    /\ UNCHANGED <<stream, items, buffer, parsed>>
    /\ UNCHANGED written
    /\ UNCHANGED driver_vars

\* The program calls parse_stream on what the writer received.
parse_stream_begin ==
    /\ cpc = "build"
    /\ cpc' = "stream"
    /\ stream' = w
    /\ items' = <<>>
    /\ made' = NoMade
    /\ UNCHANGED <<ies, w, buffer, parsed>>
    /\ UNCHANGED written
    /\ UNCHANGED driver_vars

\* The program calls next() on the iterator of parse_stream: on the stream
\* it built until the IEs and two items more were returned, on a received
\* stream until None was returned twice in a row.
parse_stream_step ==
    /\ \/ cpc = "stream" /\ Len(items) < Len(ies) + 2
       \/ /\ cpc = "raw"
          /\ ~(/\ Len(items) >= 2
               /\ items[Len(items)].item = "None"
               /\ items[Len(items) - 1].item = "None")
    /\ LET r == parse_stream_next(stream)
       IN  /\ items' = Append(items, Item(r))
           /\ stream' = r.rest
    /\ UNCHANGED <<cpc, ies, made, w, buffer, parsed>>
    /\ UNCHANGED written
    /\ UNCHANGED driver_vars

\* The first bytes of the inputs of Header::parse: every version, two values
\* of the security field, the four header types, two unassigned ones and ESCAPE.
HeaderFirstBytes ==
    {BitOr(Shl8(v, 6), BitOr(Shl8(s, 4), ty)) :
        v \in 0..3, s \in {0, 2}, ty \in {DATA_MAC_PDU, BEACON, UNICAST, RD_BROADCAST, 4, 9, ESCAPE}}

\* An input of n >= 1 bytes that begins with first.
HeaderBytes(first, n) == <<first>> \o [i \in 1..(n - 1) |-> (37 * i + first) % 256]

\* The beacon of test_parse_header.
TestBeacon ==
    <<1, 18, 52, 86, 0, 0, 0, 38, 73, 5, 176, 16, 6, 0, 13, 83, 7, 8, 12, 138, 160, 215,
      2, 100, 64, 24, 0, 0, 0, 0, 0, 0, 0, 0, 0, 0, 0, 0, 0, 0, 0, 0, 0, 0, 0, 0, 0, 0,
      0, 0>>

\* The inputs of Header::parse: the empty one, every first byte with every
\* length up to the longest header and MaxTail bytes more, and the test vector.
HeaderInputs ==
    {<<>>, TestBeacon}
    \cup {HeaderBytes(first, n) : first \in HeaderFirstBytes, n \in 1..(11 + MaxTail)}

\* The program calls Header::parse.
Header_parse_step ==
    /\ cpc = "build"
    /\ ies = <<>>
    /\ made = NoMade
    /\ \E input \in HeaderInputs :
        /\ buffer' = input
        /\ parsed' = Header_parse(input)
    /\ cpc' = "header"
    /\ UNCHANGED <<ies, made, w, stream, items>>
    /\ UNCHANGED written
    /\ UNCHANGED driver_vars

\* A program that only uses single calls of the codec starts from here.
CodecFresh == cpc = "build" /\ ies = <<>> /\ made = NoMade

\* The stream of test_parse_ie_stream.
TestStream ==
    <<73, 5, 176, 16, 6, 0, 13, 83, 7, 8, 12, 138, 160, 215, 2, 100, 64, 24, 0, 0, 0, 0,
      0, 0, 0, 0, 0, 0, 0, 0, 0, 0, 0, 0, 0, 0, 0, 0, 0, 0, 0, 0>>

\* Well-formed streams: none, one or two serialized IEs.
GoodStreams ==
    LET g6 == serialize(new_6bit_with_length(9, IePayload(SmallLen)).v, <<>>).w
        g5 == serialize(new_5bit(33, IePayload(1)).v, <<>>).w
    IN  {<<>>, g6, g5, g6 \o g5}

\* Ends of a stream that stop inside an IE: in the length field of the 8 bit
\* and of the 16 bit form, in the payload of each, and in a short IE.
TruncatedIes ==
    {<<73>>, <<73, 3, 1>>, <<137>>, <<137, 0>>, <<137, 0, 2, 1>>, <<225>>}

\* The streams the program receives: the test vector, the well-formed ones,
\* those with a head byte of MAC-ext 00 of every IE type before, between or
\* after well-formed IEs, and those that are cut short.
RawStreams ==
    {TestStream}
    \cup GoodStreams
    \cup {a \o <<t>> \o b : a \in GoodStreams, t \in 0..63, b \in GoodStreams}
    \cup {a \o t : a \in GoodStreams, t \in TruncatedIes}

\* The program calls parse_stream on a stream it received.
parse_stream_raw ==
    /\ CodecFresh
    /\ \E input \in RawStreams :
        /\ buffer' = input
        /\ stream' = input
    /\ items' = <<>>
    /\ cpc' = "raw"
    /\ UNCHANGED <<ies, made, w, parsed, written>>
    /\ UNCHANGED driver_vars

\* The IEs the program serializes into a writer that may fill up or fail.
WriterIes ==
    {new_6bit_with_length(9, IePayload(n)).v : n \in {0, SmallLen, U8_MAX + 1}}
    \cup {new_5bit(1, <<>>).v, new_5bit(33, IePayload(1)).v}

\* The writers: one that takes everything, those with room for 0 to
\* SmallLen + 3 bytes, and those that fail at the first, second or third
\* write call.
Writers ==
    {Writer(<<>>, Unlimited, Unlimited)}
    \cup {Writer(<<>>, room, Unlimited) : room \in 0..(SmallLen + 3)}
    \cup {Writer(<<>>, Unlimited, calls) : calls \in 0..2}

\* The outcome of serialize and the writer it was given.
Written(out, e, wr) == [out |-> out, e |-> e, room |-> wr.room, calls |-> wr.calls]

NoWritten == Written("none", "none", Writer(<<>>, Unlimited, Unlimited))

\* The program serializes one IE into a writer.
serialize_step ==
    /\ CodecFresh
    /\ \E ie \in WriterIes, wr \in Writers :
        LET r == serialize_into(ie, wr)
        IN  /\ ies' = <<ie>>
            /\ w' = r.wr.got
            /\ written' = Written(r.out, r.e, wr)
    /\ cpc' = "written"
    /\ UNCHANGED <<made, stream, items, buffer, parsed>>
    /\ UNCHANGED driver_vars

\* The program calls new_5bit once, with any type and a payload of 0 to 2
\* bytes, and serializes the IE it gets.
new_5bit_step ==
    /\ CodecFresh
    /\ \E t \in 0..63, n \in 0..2 :
        LET r == new_5bit(t, IePayload(n))
        IN  /\ made' = Made("new_5bit", t, n, r)
            /\ ies' = IF r.ok THEN <<r.v>> ELSE <<>>
            /\ w' = IF r.ok THEN serialize(r.v, <<>>).w ELSE <<>>
    /\ cpc' = "made"
    /\ UNCHANGED <<stream, items, buffer, parsed, written>>
    /\ UNCHANGED driver_vars

\* The calls of new_6bit_with_length the program makes one at a time: every
\* type with the payload lengths around the 8 bit limit, three types at the
\* 16 bit limit.
UnitCalls6 ==
    {<<t, n>> : t \in 0..63, n \in {0, 1, U8_MAX, U8_MAX + 1}}
    \cup {<<t, n>> : t \in {0, 9, 63}, n \in {U16_MAX, U16_MAX + 1}}

\* The program calls new_6bit_with_length once.
new_6bit_with_length_step ==
    /\ CodecFresh
    /\ \E c \in UnitCalls6 :
        LET r == new_6bit_with_length(c[1], IePayload(c[2]))
        IN  /\ made' = Made("new_6bit_with_length", c[1], c[2], r)
            /\ ies' = IF r.ok THEN <<r.v>> ELSE <<>>
    /\ cpc' = "made"
    /\ UNCHANGED <<w, stream, items, buffer, parsed, written>>
    /\ UNCHANGED driver_vars

\* The result of a conversion into an IE type: the function, its arguments
\* and the inner u8 of the type or the error.
Converted(fn, len, value, r) ==
    [fn |-> fn, type_ |-> value, len |-> len, ok |-> r.ok,
     head |-> IF r.ok THEN r.v ELSE 0, e |-> r.e]

\* The lengths the program passes to try_from_len_and_value (a usize).
TypeLens == {0, 1, 2, 3, 256, 257}

\* The program calls IEType6bit::try_from with any u8.
IEType6bit_try_from_step ==
    /\ CodecFresh
    /\ \E v \in 0..U8_MAX :
        made' = Converted("IEType6bit::try_from", 0, v, IEType6bit_try_from(v))
    /\ cpc' = "converted"
    /\ UNCHANGED <<ies, w, stream, items, buffer, parsed, written>>
    /\ UNCHANGED driver_vars

\* The program calls IEType5bit::try_from_composite with any u8.
IEType5bit_try_from_composite_step ==
    /\ CodecFresh
    /\ \E c \in 0..U8_MAX :
        made' = Converted("IEType5bit::try_from_composite", 0, c,
                          IEType5bit_try_from_composite(c))
    /\ cpc' = "converted"
    /\ UNCHANGED <<ies, w, stream, items, buffer, parsed, written>>
    /\ UNCHANGED driver_vars

\* The program calls IEType5bit::try_from_len_and_value with any u8 value.
IEType5bit_try_from_len_and_value_step ==
    /\ CodecFresh
    /\ \E l \in TypeLens, v \in 0..U8_MAX :
        made' = Converted("IEType5bit::try_from_len_and_value", l, v,
                          IEType5bit_try_from_len_and_value(l, v))
    /\ cpc' = "converted"
    /\ UNCHANGED <<ies, w, stream, items, buffer, parsed, written>>
    /\ UNCHANGED driver_vars

----------------------------------------------------------------------------
(* The system *)

\* The PHY driver before init_after_modem_init.
DriverInit ==
    /\ debug_assertions \in BOOLEAN
    /\ pc = "uninit"
    /\ pcc = None
    /\ pdc = None
    /\ result = None
    /\ DECT_EVENTS = <<>>
    /\ RECVBUF = <<>>
    /\ locked = FALSE
    /\ guard = NoGuard
    /\ ret = NoRet
    /\ panic = "none"
    /\ modem = ModemIdle
    /\ seen = <<>>
    /\ level = 0
    /\ cancelled = FALSE
    /\ stale = 0
    /\ tainted = FALSE
    /\ tx_params = NoTx
    /\ handles = 0

\* The MAC codec with nothing built and nothing parsed; at is "off" for a
\* program that does not use the codec.
CodecInit(at) ==
    /\ cpc = at
    /\ ies = <<>>
    /\ made = NoMade
    /\ w = <<>>
    /\ stream = <<>>
    /\ items = <<>>
    /\ buffer = <<>>
    /\ parsed = NoHeader
    /\ written = NoWritten

Init == DriverInit /\ CodecInit("off")

Next ==
    \/ dect_event
    \/ init_begin
    \/ init_recv
    \/ time_get_begin
    \/ time_get_recv
    \/ rx_begin
    \/ rx_recv
    \/ rssi_begin
    \/ rssi_recv
    \/ tx_begin
    \/ tx_recv
    \/ drop_guard
    \/ forget_guard
    \/ cancel

Spec == Init /\ [][Next]_vars

\* A program that calls init_after_modem_init again instead of using the
\* handle it has.
NextReinit ==
    \/ dect_event
    \/ init_begin
    \/ init_recv
    \/ init_again

SpecReinit == Init /\ [][NextReinit]_vars

\* The modem ends the request it works on with the request's completion
\* event.
Completes == dect_event /\ modem.op # "none" /\ modem'.op = "none"

\* The task is polled while the call it is suspended in has an event to
\* receive.
Polled == init_recv \/ time_get_recv \/ rx_recv \/ rssi_recv \/ tx_recv

\* A program that awaits every call it makes: no future is dropped before it
\* returned.
NextAwait ==
    \/ dect_event
    \/ init_begin
    \/ init_recv
    \/ time_get_begin
    \/ time_get_recv
    \/ rx_begin
    \/ rx_recv
    \/ rssi_begin
    \/ rssi_recv
    \/ tx_begin
    \/ tx_recv
    \/ drop_guard
    \/ forget_guard

\* The executor polls a future whose channel holds an event (the channel
\* wakes the receiver on every send), and the modem ends every request it
\* still can end.
SpecAwait ==
    /\ Init
    /\ [][NextAwait]_vars
    /\ WF_vars(Polled)
    /\ WF_vars(Completes)

\* A program that builds, serializes and parses MAC PDUs and never starts
\* the PHY driver.
InitCodec == DriverInit /\ debug_assertions /\ CodecInit("build")

NextCodec ==
    \/ build_6bit
    \/ build_5bit
    \/ parse_stream_begin
    \/ parse_stream_raw
    \/ parse_stream_step
    \/ Header_parse_step
    \/ serialize_step
    \/ new_5bit_step
    \/ new_6bit_with_length_step
    \/ IEType6bit_try_from_step
    \/ IEType5bit_try_from_composite_step
    \/ IEType5bit_try_from_len_and_value_step

SpecCodec == InitCodec /\ [][NextCodec]_vars

----------------------------------------------------------------------------
(* Properties *)

PccKinds == {"Pcc", "PccError"}

PdcKinds == {"Pdc", "PdcError"}

\* How many events of the kinds K the sequence sq holds.
Count(sq, K) == Cardinality({i \in DOMAIN sq : sq[i].kind \in K})

\* The first event of a kind in K in sq (there is one).
The(sq, K) == sq[CHOOSE i \in DOMAIN sq : sq[i].kind \in K /\ \A j \in 1..(i - 1) : sq[j].kind \notin K]

CompletedOk == Event("Completed", TRUE, 0, 0, 0, "")

\* sq ends in Completed(Ok).
EndsOk(sq) == sq # <<>> /\ sq[Len(sq)] = CompletedOk

\* sq holds at most one Pcc/PccError and at most one Pdc/PdcError.
NoRepeat(sq) == Count(sq, PccKinds) <= 1 /\ Count(sq, PdcKinds) <= 1

\* The table of rx: what rx made (return value r, guard g, panic pn, position
\* at) of the consumed sequence sq.
RxTable(sq, r, g, pn, at) ==
    LET returned == pn = "none" /\ at = "idle"
        some == returned /\ r = Ret("rx", "Some", 0) /\ g.kind = "RecvResult" /\ g.held = "live"
    IN  /\ Count(sq, PccKinds) = 0 /\ Count(sq, PdcKinds) = 0
            => returned /\ r = Ret("rx", "None", 0)
        /\ Count(sq, {"PccError"}) = 1 /\ Count(sq, {"Pcc"} \cup PdcKinds) = 0
            => some /\ ~g.ok /\ g.err = The(sq, {"PccError"}).e
        /\ Count(sq, {"Pcc"}) = 1 /\ Count(sq, {"PccError"} \cup PdcKinds) = 0
            => some /\ g.ok /\ ~g.pdc_ok /\ g.pdc_err = "NotReceived"
                    /\ g.pcc_time = The(sq, {"Pcc"}).a /\ g.pcc_len = The(sq, {"Pcc"}).b
        /\ Count(sq, {"Pcc"}) = 1 /\ Count(sq, {"Pdc"}) = 1
                /\ Count(sq, {"PccError", "PdcError"}) = 0
            => some /\ g.ok /\ g.pcc_time = The(sq, {"Pcc"}).a
                    /\ g.pcc_len = The(sq, {"Pcc"}).b
                    /\ g.pdc_ok /\ g.pdc_len = The(sq, {"Pdc"}).a

\* C1: when the events one rx call consumed end in Completed(Ok) and hold at
\* most one Pcc/PccError and at most one Pdc/PdcError, rx returns Ok(None) if
\* neither a PCC nor a PDC event is among them, a guard with indices
\* Err(PccError) if only a PccError is, a guard with the PDC marked NotReceived
\* if only a Pcc is, and a guard carrying pcc_time, pcc_len and the PDC length
\* if a Pcc and a Pdc are.
C1_RxAssembly ==
    [][(pc = "rx" /\ seen' # seen /\ EndsOk(seen') /\ NoRepeat(seen'))
        => RxTable(seen', ret', guard', panic', pc')]_vars

\* C1 witness: rx has returned a guard with full indices after Pcc, Pdc, Completed(Ok).
C1_Witness ==
    /\ ret = Ret("rx", "Some", 0)
    /\ Len(seen) = 3
    /\ NoRepeat(seen)
    /\ guard.held = "live"
    /\ guard.ok
    /\ guard.pdc_ok

\* C2: a result guard holds the scratch-buffer lock as long as it exists; while
\* the lock is held an rx or rssi that is begun panics in clear_recvbuf without
\* a modem request, and nothing (ISR or operation) changes the buffer; only
\* dropping the guard frees the lock, and with the lock free rx and rssi pass
\* clear_recvbuf and start with an empty buffer.
C2_GuardHoldsLock ==
    [][/\ (guard.held # "none") = locked
       /\ (guard'.held # "none") = locked'
       /\ locked => RECVBUF' = RECVBUF
       /\ locked /\ (rx_begin \/ rssi_begin)
            => panic' = "clear_recvbuf: Buffer in use" /\ modem' = modem /\ pc' = pc
       /\ locked /\ ~locked' => drop_guard
       /\ drop_guard => ~locked' /\ guard' = NoGuard
       /\ ~locked /\ (rx_begin \/ rssi_begin) => panic' = "none" /\ RECVBUF' = <<>>]_vars

\* C2 witness: with a leaked guard holding the lock, an rx was begun and
\* panicked in clear_recvbuf.
C2_Witness ==
    /\ guard.held = "leaked"
    /\ locked
    /\ ret.op = "rx"
    /\ panic = "clear_recvbuf: Buffer in use"

\* C3: an operation that consumed an event left over from a cancelled
\* operation never returns a result; it panics.
C3_CancelDetected ==
    tainted => ret.kind \notin {"Ok", "None", "Some", "Phy"}

\* C4: with a modem that emits for each request only that operation's event
\* sequence, and no cancelled operation, DECT_EVENTS never holds more than 3
\* records and the ISR's try_send never fails.
C4_QueueBound ==
    level <= 1 /\ ~cancelled
        => Len(DECT_EVENTS) <= 3 /\ panic # "isr: Queue is managed"

\* C4 witness: three records are queued under such a modem.
C4_Witness ==
    /\ level <= 1
    /\ ~cancelled
    /\ Len(DECT_EVENTS) = 3

\* The step in which the operation in flight consumes a failing Completed.
PhyErrorStep ==
    /\ pc \in {"rx", "rssi", "tx"}
    /\ DECT_EVENTS # <<>>
    /\ Head(DECT_EVENTS).event.kind = "Completed"
    /\ ~Head(DECT_EVENTS).event.ok
    /\ seen' = Append(seen, Head(DECT_EVENTS).event)

\* C5: when rx, rssi or tx consumes Completed with a nonzero code it returns
\* exactly that code as the phy error without panicking, leaves lock and
\* guards as they were (free, for rx and rssi), and leaves the handle as it
\* was before the operation: nothing queued, the modem idle.  From there, as
\* from every state, operations against a well-behaved modem (and with a valid
\* pcc length, no leaked guard and no cancellation) never panic.
C5_PhyErrorRecovers ==
    /\ [][PhyErrorStep =>
            /\ ret' = Ret(pc, "Phy", Head(DECT_EVENTS).event.a)
            /\ ret'.a # 0
            /\ pc' = "idle"
            /\ panic' = "none"
            /\ locked' = locked
            /\ guard' = guard
            /\ pc \in {"rx", "rssi"} => ~locked'
            /\ ~cancelled => DECT_EVENTS' = <<>> /\ modem'.op = "none"]_vars
    /\ [](level = 0 /\ ~cancelled /\ guard.held # "leaked"
            => panic \in {"none", "tx: Not a valid header length"})

\* C5 witness: rx has returned the phy error with the largest code.
C5_Witness ==
    /\ ret = Ret("rx", "Phy", MaxErr)
    /\ pc = "idle"
    /\ panic = "none"
    /\ ~locked

\* C6 as claimed: every operation begun while the lock is held panics before
\* it issues a modem request.
C6_EveryPrologueChecks ==
    [][locked /\ (rx_begin \/ rssi_begin \/ tx_begin \/ time_get_begin)
        => panic' # "none" /\ modem' = modem]_vars

\* C6 as amended: rx and rssi begun while the lock is held panic in
\* clear_recvbuf before they issue a modem request; time_get and tx do not
\* look at the lock: begun while it is held, time_get does not panic, and tx
\* panics only on an invalid pcc length.
C6_RxRssiPrologueChecks ==
    [][/\ locked /\ (rx_begin \/ rssi_begin)
            => panic' = "clear_recvbuf: Buffer in use" /\ modem' = modem
                /\ pc' = pc /\ RECVBUF' = RECVBUF
       /\ locked /\ time_get_begin => panic' = "none"
       /\ locked /\ tx_begin => panic' \in {"none", "tx: Not a valid header length"}]_vars

\* C6 witness: with the lock held, an rssi was begun and panicked in its
\* prologue, no request issued.
C6_Witness ==
    /\ locked
    /\ ret.op = "rssi"
    /\ panic = "clear_recvbuf: Buffer in use"
    /\ modem.op = "none"

\* C7: after rx consumed exactly Pcc(t, n), Pdc(m), Completed(Ok) (no operation
\* having been cancelled) with n + m within the capacity, the
\* guard has pcc_time() = t, pcc() the n header bytes delivered with the PCC
\* event and pdc() the m bytes delivered with the PDC event.
C7_GuardReadsDelivered ==
    (/\ ret = Ret("rx", "Some", 0)
     /\ guard.held # "none"
     /\ ~cancelled
     /\ Len(seen) = 3
     /\ seen[1].kind = "Pcc"
     /\ seen[2].kind = "Pdc"
     /\ seen[3] = CompletedOk
     /\ seen[1].b + seen[2].a <= RECVBUF_CAP)
    => /\ pcc_time(guard) = Got(TRUE, <<>>, seen[1].a, "", "")
       /\ RecvResult_pcc(guard, RECVBUF) = Got(TRUE, SubSeq(PccHdr, 1, seen[1].b), 0, "", "")
       /\ RecvResult_pdc(guard, RECVBUF) = Got(TRUE, PdcData(seen[2].a), 0, "", "")
       /\ RecvResult_pcc(guard, RECVBUF).bytes = SubSeq(RECVBUF, 1, seen[1].b)
       /\ RecvResult_pdc(guard, RECVBUF).bytes
            = SubSeq(RECVBUF, seen[1].b + 1, seen[1].b + seen[2].a)

\* C7 witness: such a guard, with a PDC that fills the buffer to its last byte.
C7_Witness ==
    /\ ret = Ret("rx", "Some", 0)
    /\ guard.held = "live"
    /\ ~cancelled
    /\ Len(seen) = 3
    /\ seen[1].kind = "Pcc"
    /\ seen[2].kind = "Pdc"
    /\ seen[1].b + seen[2].a = RECVBUF_CAP
    /\ Len(RECVBUF) = RECVBUF_CAP

\* C8: for a guard returned by rx whose operation saw one PCC event and at
\* most one PDC event (no operation having been cancelled): after
\* PccError(k), pcc_time() and pcc() are Err(k) and pdc() is
\* Err(PdcError::PccError(k)); after Pcc and then PdcError, pcc() succeeds and
\* pdc() is Err(CrcError); after Pcc and no PDC event, pcc() succeeds and
\* pdc() is Err(NotReceived).
C8_GuardErrors ==
    (/\ ret = Ret("rx", "Some", 0)
     /\ guard.held # "none"
     /\ ~cancelled
     /\ NoRepeat(seen))
    => /\ Count(seen, {"PccError"}) = 1
            => LET k == The(seen, {"PccError"}).e
               IN  /\ pcc_time(guard) = Got(FALSE, <<>>, 0, k, "")
                   /\ RecvResult_pcc(guard, RECVBUF) = Got(FALSE, <<>>, 0, k, "")
                   /\ RecvResult_pdc(guard, RECVBUF) = Got(FALSE, <<>>, 0, "PccError", k)
       /\ Count(seen, {"Pcc"}) = 1 /\ Count(seen, {"PdcError"}) = 1
            => /\ RecvResult_pcc(guard, RECVBUF).ok
               /\ RecvResult_pdc(guard, RECVBUF) = Got(FALSE, <<>>, 0, "CrcError", "")
       /\ Count(seen, {"Pcc"}) = 1 /\ Count(seen, PdcKinds) = 0
            => /\ RecvResult_pcc(guard, RECVBUF).ok
               /\ RecvResult_pdc(guard, RECVBUF) = Got(FALSE, <<>>, 0, "NotReceived", "")

\* C8 witness: a guard returned after Pcc, PdcError, Completed(Ok).
C8_Witness ==
    /\ ret = Ret("rx", "Some", 0)
    /\ guard.held = "live"
    /\ ~cancelled
    /\ NoRepeat(seen)
    /\ Count(seen, {"Pcc"}) = 1
    /\ Count(seen, {"PdcError"}) = 1

\* C9: when the events one rx call consumed end in Completed(Ok) and hold a
\* Pdc or PdcError but no Pcc or PccError, rx has panicked and returned nothing.
C9_PdcWithoutPcc ==
    (/\ ret.op = "rx"
     /\ EndsOk(seen)
     /\ Count(seen, PccKinds) = 0
     /\ Count(seen, PdcKinds) >= 1)
    => panic = "rx: Sequence violation" /\ ret.kind = "pending" /\ guard.held = "none"

\* C9 witness: rx panicked on Pdc, Completed(Ok).
C9_Witness ==
    /\ ret.op = "rx"
    /\ Len(seen) = 2
    /\ seen[1].kind = "Pdc"
    /\ seen[2] = CompletedOk
    /\ panic = "rx: Sequence violation"

\* C10: once an rx has consumed a second Pcc/PccError or a second Pdc/PdcError
\* it has panicked; it does not go on and returns nothing.
C10_RepeatIsFatal ==
    (ret.op = "rx" /\ ~NoRepeat(seen))
        => panic # "none" /\ ret.kind = "pending"

\* The modem calls of init in their order, and the event that completes each.
InitCalls == <<"init", "latency_get", "configure", "activate">>

InitOrder == <<"Init", "LatencyGet", "Configure", "Activate">>

\* The kinds of the events of sq.
Kinds(sq) == [i \in DOMAIN sq |-> sq[i].kind]

\* C11: init issues the modem calls init, latency_get, configure, activate in
\* this order, call i only once exactly the completion events of the calls
\* before it have been received, in order; it returns a handle only once Init,
\* LatencyGet, Configure, Activate have been received; and an event of any
\* other kind received at one of its four waits makes it panic, with no
\* further call and no handle.
C11_InitSequence ==
    [][/\ (modem.op = "none" /\ modem'.op \in {InitCalls[i] : i \in 1..4})
            => \E i \in 1..4 : /\ modem'.op = InitCalls[i]
                               /\ Kinds(seen') = SubSeq(InitOrder, 1, i - 1)
                               /\ pc' = "await_" \o InitOrder[i]
       /\ (pc \in InitWaits \cup {"uninit", "failed"} /\ pc' = "idle")
            => Kinds(seen') = InitOrder /\ ret' = Ret("init", "Ok", 0)
       /\ (pc \in InitWaits /\ seen' # seen
                /\ Kinds(seen') # SubSeq(InitOrder, 1, Len(seen')))
            => panic' = "init: Sequence violation" /\ pc' = pc /\ modem' = modem
                /\ ret' = Ret("init", "pending", 0)]_vars

\* C11 witness: init has returned the handle after the four events.
C11_Witness ==
    /\ ret = Ret("init", "Ok", 0)
    /\ pc = "idle"
    /\ Kinds(seen) = InitOrder

\* C11 witness of the fatal case: init panicked on a Configure event at its
\* second wait.
C11_WitnessPanic ==
    /\ panic = "init: Sequence violation"
    /\ Kinds(seen) = <<"Init", "Configure">>

\* C12: in the step in which rssi consumes an event (no operation having been
\* cancelled): if with it rssi has consumed exactly one Rssi(start,
\* Some(range)) and then Completed(Ok), rssi returns start and a live
\* RssiResult that holds the lock and whose data() is the samples stored for
\* that event; if the event is Completed with a nonzero code, rssi returns
\* that code as the phy error, with no guard and the lock free; if the event
\* is of any kind but Rssi and Completed, rssi panics and returns nothing.
C12_Rssi ==
    [][(pc = "rssi" /\ seen' # seen /\ ~cancelled) =>
        LET ev == Head(DECT_EVENTS).event
        IN  /\ (Kinds(seen') = <<"Rssi", "Completed">> /\ seen'[1].ok /\ ev = CompletedOk)
                => /\ ret' = Ret("rssi", "Ok", seen'[1].a)
                   /\ pc' = "idle"
                   /\ panic' = "none"
                   /\ guard'.kind = "RssiResult"
                   /\ guard'.held = "live"
                   /\ locked'
                   /\ RssiResult_data(guard', RECVBUF')
                        = Got(TRUE, RssiMeas(seen'[1].c - seen'[1].b), 0, "", "")
                   /\ RssiResult_data(guard', RECVBUF').bytes = RECVBUF'
            /\ (ev.kind = "Completed" /\ ~ev.ok)
                => /\ ret' = Ret("rssi", "Phy", ev.a)
                   /\ ev.a # 0
                   /\ pc' = "idle"
                   /\ panic' = "none"
                   /\ guard' = NoGuard
                   /\ ~locked'
            /\ ev.kind \notin {"Rssi", "Completed"}
                => /\ panic' = "rssi: Sequence violation"
                   /\ ret' = Ret("rssi", "pending", 0)
                   /\ guard' = NoGuard]_vars

\* C12 witness: rssi has returned the start time and a guard over the samples.
C12_Witness ==
    /\ ret = Ret("rssi", "Ok", MaxTime)
    /\ ~cancelled
    /\ Kinds(seen) = <<"Rssi", "Completed">>
    /\ guard.kind = "RssiResult"
    /\ guard.held = "live"
    /\ RssiResult_data(guard, RECVBUF).bytes = RssiMeas(SmallLen + 1)

\* C13: a tx called with network id 0 and a pcc of 5 or 10 bytes returns the
\* usage error; it does not call the modem's transmit request, consumes no
\* event and does not panic; the queue, the scratch buffer, its lock and the
\* modem are as they were.
C13_TxUsageError ==
    [][(tx_begin /\ tx_params'.network_id = 0 /\ tx_params'.pcc_len \in {5, 10})
        => /\ ret' = Ret("tx", "Usage", 0)
           /\ ~tx_params'.called
           /\ modem' = modem
           /\ pc' = "idle"
           /\ panic' = "none"
           /\ seen' = <<>>
           /\ DECT_EVENTS' = DECT_EVENTS
           /\ RECVBUF' = RECVBUF
           /\ locked' = locked]_vars

\* C13 witness: tx has returned the usage error while an event left behind by
\* a cancelled operation was queued.
C13_Witness ==
    /\ ret = Ret("tx", "Usage", 0)
    /\ tx_params = TxParams(10, 0, FALSE, 0)
    /\ DECT_EVENTS # <<>>

\* C14: a tx that calls the modem passes phy_type 0 for a pcc of 5 bytes and
\* phy_type 1 for a pcc of 10 bytes; a tx called with a pcc of any other
\* length panics without calling the modem and without consuming an event.
C14_TxPhyType ==
    [][tx_begin
        => /\ tx_params'.called => tx_params'.pcc_len \in {5, 10}
           /\ (tx_params'.called /\ tx_params'.pcc_len = 5) => tx_params'.phy_type = 0
           /\ (tx_params'.called /\ tx_params'.pcc_len = 10) => tx_params'.phy_type = 1
           /\ (tx_params'.pcc_len \in {5, 10} /\ tx_params'.network_id # 0)
                => tx_params'.called /\ panic' = "none"
           /\ tx_params'.pcc_len \notin {5, 10}
                => /\ panic' = "tx: Not a valid header length"
                   /\ ~tx_params'.called
                   /\ modem' = modem
                   /\ ret' = Ret("tx", "pending", 0)
                   /\ seen' = <<>>
                   /\ DECT_EVENTS' = DECT_EVENTS]_vars

\* C14 witness: a tx with a pcc of 10 bytes has passed phy_type 1 to the modem
\* and completed.
C14_Witness ==
    /\ ret = Ret("tx", "Ok", 0)
    /\ tx_params = TxParams(10, 1, TRUE, 1)

\* C14 witness of the fatal case: a tx with a pcc of 11 bytes has panicked.
C14_WitnessPanic ==
    /\ panic = "tx: Not a valid header length"
    /\ tx_params.pcc_len = 11
    /\ ~tx_params.called

\* C15: a time_get that suspends has issued the modem's time_get request and
\* consumed nothing; when the event it then receives is a TimeGet event it
\* returns the time field of the wrapper of that event; when it is an event
\* of any other kind, time_get panics and returns nothing.
C15_TimeGet ==
    [][/\ (time_get_begin /\ pc' = "time_get")
            => modem' = Request("time_get") /\ DECT_EVENTS' = DECT_EVENTS
       /\ (pc = "time_get" /\ seen' # seen)
            => LET outer == Head(DECT_EVENTS)
               IN  /\ seen' = <<outer.event>>
                   /\ outer.event.kind = "TimeGet"
                        => ret' = Ret("time_get", "Ok", outer.time)
                            /\ pc' = "idle" /\ panic' = "none"
                   /\ outer.event.kind # "TimeGet"
                        => ret' = Ret("time_get", "pending", 0)
                            /\ panic' = "time_get: Sequence violation"]_vars

\* C15 witness: time_get has returned the largest time the modem reports.
C15_Witness ==
    /\ ret = Ret("time_get", "Ok", MaxTime)
    /\ Kinds(seen) = <<"TimeGet">>
    /\ pc = "idle"

\* C15 witness of the fatal case: time_get panicked on a Completed event.
C15_WitnessPanic ==
    /\ panic = "time_get: Sequence violation"
    /\ Kinds(seen) = <<"Completed">>

\* C16: at most one DectPhy value exists: init_after_modem_init returns a
\* handle at most once, however often the program calls it.
C16_SingleHandle ==
    handles <= 1

\* The step in which the modem hands an event with an id the handler does not
\* know to dect_event.
UnknownEventStep ==
    /\ modem.op # "none"
    /\ modem'.op = modem.op
    /\ modem'.n = modem.n + 1
    /\ modem'.last = "UNKNOWN"

\* C17 as claimed: the handler crashes when it is handed an event with an
\* unknown id.
C17_UnknownEventCrashes ==
    [][UnknownEventStep => panic' # "none"]_vars

\* C17 as amended: handed an event with an unknown id, the handler returns
\* without a crash and without queuing anything: the queue, the scratch
\* buffer and the operation in flight are as they were.
C17_UnknownEventDropped ==
    [][UnknownEventStep
        => /\ panic' = "none"
           /\ DECT_EVENTS' = DECT_EVENTS
           /\ RECVBUF' = RECVBUF
           /\ UNCHANGED <<pc, ret, seen, locked, guard>>]_vars

\* C17 witness: the handler was handed an unknown event during an rx and the
\* firmware runs on.
C17_Witness ==
    /\ modem.last = "UNKNOWN"
    /\ modem.op = "rx"
    /\ pc = "rx"
    /\ panic = "none"

\* The codec has not panicked.
CodecNoPanic == cpc # "panic"


\* The IE that parse gives back for the serialization of ie alone is ie: the
\* parse succeeds, ie_number() and the payload bytes are the same, and
\* nothing of the output is left.
RoundTrip(ie) ==
    LET out == serialize(ie, <<>>)
        back == parse(out.w)
    IN  /\ out.out = "Ok"
        /\ back.res.ok
        /\ ie_number(back.res.v) = ie_number(ie)
        /\ payload(back.res.v) = payload(ie)
        /\ back.rest = <<>>

\* The i-th item of parse_stream over the serialized IEs is the i-th IE
\* built, and the item after the last is None.
StreamItem(i) ==
    IF i <= Len(ies)
    THEN /\ items[i].item = "Some"
         /\ items[i].ok
         /\ ie_number(items[i].ie) = ie_number(ies[i])
         /\ payload(items[i].ie) = payload(ies[i])
    ELSE items[i].item = "None"

\* C18: every IE built by new_6bit_with_length or new_5bit, serialized into a
\* writer that takes all bytes and parsed again, gives one IE with the same
\* ie_number() and the same payload and consumes the whole output; over the
\* concatenation of such serialized IEs parse_stream yields them in the same
\* order and then ends without an error.
C18_RoundTrip ==
    /\ cpc \in {"build", "stream"} =>
        \A i \in 1..Len(ies) : RoundTrip(ies[i])
    /\ cpc = "stream" =>
        /\ \A i \in 1..Len(items) : StreamItem(i)
        /\ Len(items) >= Len(ies) => stream = <<>>

\* Two IEs, a 5 bit one and a 6 bit one with a 16 bit length, were built,
\* serialized and parsed as a stream to its end.
C18_Witness ==
    /\ cpc = "stream"
    /\ Len(ies) = 2
    /\ Shr8(ies[1].head, 6) = SHORT_IE
    /\ Len(ies[1].payload) = 1
    /\ Shr8(ies[2].head, 6) = LENGTH_16BIT
    /\ Len(ies[2].payload) > U8_MAX
    /\ Len(items) = 3
    /\ items[1].ok /\ items[2].ok /\ items[3].item = "None"

\* The width of the common header of a variant.
SubheaderWidth(variant) ==
    CASE variant = "DataMacPdu" -> 2
      [] variant = "Beacon" -> 7
      [] variant = "Unicast" -> 10
      [] variant = "RdBroadcast" -> 6

\* The variant the low 4 bits of the first byte select.
VariantOf(first) ==
    CASE first % 16 = 0 -> "DataMacPdu"
      [] first % 16 = 1 -> "Beacon"
      [] first % 16 = 2 -> "Unicast"
      [] first % 16 = 3 -> "RdBroadcast"
      [] OTHER -> "none"

\* C19: when Header::parse(s) succeeds the low 4 bits of s[0] select the
\* variant, the subheader is s[1 .. 1+w] for the width w of the variant,
\* s.len() >= 1 + w, the tail is the suffix s[1+w ..], and a beacon's
\* network_id and transmitter_address are the big-endian values of subheader
\* bytes 0..3 and 3..7.
C19_HeaderParse ==
    (cpc = "header" /\ parsed.ok) =>
        /\ buffer # <<>>
        /\ parsed.v.variant = VariantOf(buffer[1])
        /\ parsed.v.variant # "none"
        /\ LET width == SubheaderWidth(parsed.v.variant)
           IN  /\ Len(buffer) >= 1 + width
               /\ parsed.v.sub = SubSeq(buffer, 2, 1 + width)
               /\ parsed.v.tail = SubSeq(buffer, 2 + width, Len(buffer))
        /\ parsed.v.variant = "Beacon" =>
            /\ network_id(parsed.v.sub).hi = buffer[2]
            /\ network_id(parsed.v.sub).lo = buffer[3] * 256 + buffer[4]
            /\ transmitter_address(parsed.v.sub).hi = buffer[5] * 256 + buffer[6]
            /\ transmitter_address(parsed.v.sub).lo = buffer[7] * 256 + buffer[8]

\* The beacon of test_parse_header was parsed: its network_id is 0x123456 and
\* its transmitter_address 0x26.
C19_Witness ==
    /\ cpc = "header"
    /\ buffer = TestBeacon
    /\ parsed.ok
    /\ parsed.v.variant = "Beacon"
    /\ network_id(parsed.v.sub) = U32(18, 13398)
    /\ transmitter_address(parsed.v.sub) = U32(0, 38)
    /\ Len(parsed.v.tail) = 42

\* A unicast header was parsed with a tail of MaxTail bytes.
C19_WitnessUnicast ==
    /\ cpc = "header"
    /\ parsed.ok
    /\ parsed.v.variant = "Unicast"
    /\ Len(parsed.v.tail) = MaxTail

\* C20: Header::parse returns a parse error for every input whose first byte
\* has a nonzero version, whatever the header type and the rest are.
C20_VersionRejected ==
    (cpc = "header" /\ buffer # <<>> /\ buffer[1] \div 64 # 0) =>
        /\ ~parsed.ok
        /\ parsed.e = "ParsingError"

\* An input of version 2 that is otherwise a whole beacon header was parsed.
C20_Witness ==
    /\ cpc = "header"
    /\ Len(buffer) >= 8
    /\ buffer[1] \div 64 = 2
    /\ buffer[1] % 16 = BEACON
    /\ ~parsed.ok


\* The header type in the low 4 bits of the first byte of the input.
TypeOf(input) == input[1] % 16

\* C21: Header::parse returns a parse error and does not panic for the empty
\* input, for every mac_header_type outside 0..3 (ESCAPE included) and for
\* every input shorter than 1 + the subheader width of its header type.
C21_HeaderParseErrors ==
    cpc = "header" =>
        /\ parsed.e # "panic"
        /\ ( \/ buffer = <<>>
             \/ TypeOf(buffer) \notin 0..3
             \/ Len(buffer) < 1 + SubheaderWidth(VariantOf(buffer[1])) )
           => (~parsed.ok /\ parsed.e = "ParsingError")

\* A beacon header of version 0 that is one byte short was parsed.
C21_Witness ==
    /\ cpc = "header"
    /\ Len(buffer) = 7
    /\ buffer[1] = BEACON
    /\ ~parsed.ok
    /\ parsed.e = "ParsingError"

\* An input of version 0 and header type ESCAPE, longer than every header,
\* was parsed.
C21_WitnessEscape ==
    /\ cpc = "header"
    /\ Len(buffer) = 11 + MaxTail
    /\ buffer[1] = ESCAPE
    /\ ~parsed.ok

\* The empty input was parsed.
C21_WitnessEmpty ==
    /\ cpc = "header"
    /\ buffer = <<>>
    /\ ~parsed.ok


\* The i-th item parse_stream returned is an error.
IsError(i) == items[i].item = "Some" /\ ~items[i].ok

\* C22: parse_stream yields at most one error, and once it has yielded an
\* error every later next() returns None, whatever bytes were left in the
\* input.
C22_StreamEndsAtError ==
    cpc \in {"stream", "raw"} =>
        /\ \A i, j \in 1..Len(items) : (i < j /\ IsError(i)) => items[j].item = "None"
        /\ Cardinality({i \in 1..Len(items) : IsError(i)}) <= 1

\* A stream of a well-formed IE, a head byte of MAC-ext 00 and a second
\* well-formed IE was parsed: the first IE, an error, and None twice.
C22_Witness ==
    /\ cpc = "raw"
    /\ Len(buffer) = SmallLen + 5
    /\ buffer[SmallLen + 3] = 0
    /\ buffer[SmallLen + 4] = 225
    /\ Len(items) = 4
    /\ items[1].ok
    /\ IsError(2)
    /\ items[3].item = "None" /\ items[4].item = "None"

\* C26: InformationElement::parse returns a parse error for every input whose
\* head byte has MAC-ext 00, for every IE type and every remaining length;
\* in a stream a next() that meets such an IE returns the error and ends the
\* iteration.
C26_NoLengthFieldRejected ==
    [][ (cpc = "raw" /\ stream # <<>> /\ stream[1] \div 64 = NO_LENGTH_FIELD) =>
            /\ ~parse(stream).res.ok
            /\ parse(stream).res.e = "ParsingError"
            /\ Len(items') = Len(items) + 1
            /\ items'[Len(items')].item = "Some"
            /\ ~items'[Len(items')].ok
            /\ stream' = <<>>
            /\ \A i \in 1..Len(items) : ~IsError(i) ]_vars

\* A stream with a head byte of MAC-ext 00 and IE type 63 between two
\* well-formed IEs was parsed up to the first None.
C26_Witness ==
    /\ cpc = "raw"
    /\ Len(buffer) = SmallLen + 5
    /\ buffer[SmallLen + 3] = 63
    /\ Len(items) = 3
    /\ items[1].ok
    /\ IsError(2)
    /\ items[3].item = "None"
    /\ stream = <<>>


\* The bytes of an IE on the wire: the head, the length field of the width
\* the MAC-ext selects, the payload.
Wire(ie) ==
    LET n == Len(ie.payload)
        field == CASE ie.head \div 64 = 1 -> <<n>>
                   [] ie.head \div 64 = 2 -> <<n \div 256, n % 256>>
                   [] OTHER -> <<>>
    IN  <<ie.head>> \o field \o ie.payload

\* C23: for any writer, when serialize returns Ok the writer has received
\* exactly the head byte, the length field of the width the MAC-ext selects
\* and all payload bytes; when the writer fails, its error is returned.
C23_SerializeWritesAll ==
    cpc = "written" =>
        /\ written.out = "Ok" => w = Wire(ies[1])
        /\ written.out # "Ok" => (written.out = "Err" /\ written.e # "none")

\* serialize returned Ok although the writer took only a part of the IE.
C23_ShortWrite ==
    /\ cpc = "written"
    /\ written.out = "Ok"
    /\ written.room = 3
    /\ Len(ies[1].payload) = SmallLen
    /\ Len(w) = 3
    /\ Len(Wire(ies[1])) = SmallLen + 2


\* C24: new_5bit(t, p) succeeds iff p.len() is the length bit of t (0 or 1);
\* then the head is 0xc0 | t.composite() and the IE serializes to 1 byte for
\* length 0 and 2 bytes for length 1; on a mismatch it returns the length
\* error.
C24_New5bit ==
    (cpc \in {"build", "made"} /\ made.fn = "new_5bit") =>
        /\ made.ok <=> made.len = made.type_ \div 32
        /\ made.ok =>
            /\ made.len \in {0, 1}
            /\ made.head = 192 + made.type_
            /\ ies[Len(ies)].head = made.head
            /\ Len(ies[Len(ies)].payload) = made.len
            /\ Len(Wire(ies[Len(ies)])) = 1 + made.len
            /\ cpc = "made" => w = Wire(ies[1])
        /\ ~made.ok => made.e = "InputLengthError"

\* new_5bit was called with a type of length 1 and a payload of 1 byte, and
\* the IE was serialized to 2 bytes.
C24_Witness ==
    /\ cpc = "made"
    /\ made.fn = "new_5bit"
    /\ made.ok
    /\ made.type_ = 62
    /\ made.len = 1
    /\ Len(w) = 2

\* new_5bit was called with a type of length 0 and a payload of 1 byte.
C24_WitnessMismatch ==
    /\ cpc = "made"
    /\ made.fn = "new_5bit"
    /\ made.type_ = 30
    /\ made.len = 1
    /\ ~made.ok

\* C25: new_6bit_with_length(t, p) succeeds iff p.len() <= 65535; then it
\* uses the 8 bit length form (MAC-ext 01) when p.len() <= 255 and the 16 bit
\* form (MAC-ext 10) otherwise, and the low 6 bits of the head are t.
C25_New6bit ==
    (cpc \in {"build", "made"} /\ made.fn = "new_6bit_with_length") =>
        /\ made.ok <=> made.len <= 65535
        /\ made.ok =>
            /\ made.head \div 64 = IF made.len <= 255 THEN 1 ELSE 2
            /\ made.head % 64 = made.type_
            /\ ies[Len(ies)].head = made.head
            /\ Len(ies[Len(ies)].payload) = made.len
        /\ ~made.ok => made.e = "InputLengthError"

\* new_6bit_with_length was called with a payload of 255 bytes.
C25_Witness ==
    /\ cpc = "made"
    /\ made.fn = "new_6bit_with_length"
    /\ made.ok
    /\ made.len = 255
    /\ made.type_ = 63

\* new_6bit_with_length was called with a payload of 65535 bytes, and with
\* one of 65536 bytes.
C25_WitnessLimit ==
    /\ cpc = "made"
    /\ made.fn = "new_6bit_with_length"
    /\ made.ok
    /\ made.len = 65535

C25_WitnessTooLong ==
    /\ cpc = "made"
    /\ made.fn = "new_6bit_with_length"
    /\ ~made.ok
    /\ made.len = 65536

\* C27: IEType6bit::try_from(v) succeeds iff v <= 0x3f;
\* IEType5bit::try_from_composite(c) succeeds iff c <= 0x3f;
\* IEType5bit::try_from_len_and_value(l, v) succeeds iff l < 2 and v <= 0x1f,
\* and then len() = l, value() = v and composite() = (l << 5) | v.
C27_TypeConversions ==
    cpc = "converted" =>
        /\ made.fn = "IEType6bit::try_from" =>
            /\ made.ok <=> made.type_ <= 63
            /\ made.ok => IEType6bit_into_u8(made.head) = made.type_
        /\ made.fn = "IEType5bit::try_from_composite" =>
            /\ made.ok <=> made.type_ <= 63
            /\ made.ok => IEType5bit_composite(made.head) = made.type_
        /\ made.fn = "IEType5bit::try_from_len_and_value" =>
            /\ made.ok <=> (made.len < 2 /\ made.type_ <= 31)
            /\ made.ok =>
                /\ IEType5bit_len(made.head) = made.len
                /\ IEType5bit_value(made.head) = made.type_
                /\ IEType5bit_composite(made.head) = made.len * 32 + made.type_
        /\ ~made.ok => made.e = "ExcessiveBitsSet"

\* try_from_len_and_value(1, 0x1f) returned a type.
C27_Witness ==
    /\ cpc = "converted"
    /\ made.fn = "IEType5bit::try_from_len_and_value"
    /\ made.ok
    /\ made.len = 1
    /\ made.type_ = 31
    /\ made.head = 63

\* The calls of test_convert were made.
C27_WitnessTest ==
    /\ cpc = "converted"
    /\ ~made.ok
    /\ \/ made.fn = "IEType5bit::try_from_len_and_value" /\ made.len = 2 /\ made.type_ = 0


\* The step in which the modem hands an event with this id to dect_event.
EventStep(id) ==
    /\ modem.op # "none"
    /\ modem'.op = modem.op
    /\ modem'.n = modem.n + 1
    /\ modem'.last = id

\* The event dect_event queued in this step.
Queued == DECT_EVENTS'[Len(DECT_EVENTS')].event

\* C28: rx clears the scratch buffer before it issues the receive request,
\* and when the ISR handles a PCC event of a modem that has kept to its
\* sequences the buffer is empty (the emptiness assertion holds) and, unless
\* an operation was cancelled before, unlocked; with the lock the ISR stores
\* the header at offset 0 with length 5 for phy_type 0 and 10 for phy_type 1;
\* for any other phy_type the ISR records PccError(UnexpectedEventDetails)
\* and leaves the buffer untouched.
C28_PccStoresHeader ==
    /\ [][(pc # "rx" /\ pc' = "rx") => (RECVBUF' = <<>> /\ modem.op = "none")]_vars
    /\ [][EventStep("PCC") =>
            IF modem'.phy_type \in {0, 1}
            THEN level' = 0 =>
                 /\ RECVBUF = <<>>
                 /\ ~cancelled => ~locked
                 /\ ~locked =>
                    /\ panic' \in {"none", "isr: Queue is managed"}
                    /\ RECVBUF' = SubSeq(PccHdr, 1, IF modem'.phy_type = 0 THEN 5 ELSE 10)
                    /\ panic' = "none" =>
                        /\ Queued.kind = "Pcc"
                        /\ Queued.a = modem'.start
                        /\ Queued.b = Len(RECVBUF')
            ELSE /\ RECVBUF' = RECVBUF
                 /\ panic' \in {"none", "isr: Queue is managed"}
                 /\ panic' = "none" =>
                        /\ Queued.kind = "PccError"
                        /\ Queued.e = "UnexpectedEventDetails"]_vars

\* The ISR stored the 10 byte header of a PCC of phy_type 1 for an rx.
C28_Witness ==
    /\ pc = "rx"
    /\ modem.last = "PCC"
    /\ modem.phy_type = 1
    /\ RECVBUF = PccHdr
    /\ DECT_EVENTS # <<>>
    /\ DECT_EVENTS[Len(DECT_EVENTS)].event.kind = "Pcc"
    /\ DECT_EVENTS[Len(DECT_EVENTS)].event.b = 10

\* The ISR was handed a PCC of phy_type 2 for an rx.
C28_WitnessOtherType ==
    /\ pc = "rx"
    /\ modem.last = "PCC"
    /\ modem.phy_type = 2
    /\ RECVBUF = <<>>
    /\ DECT_EVENTS # <<>>
    /\ DECT_EVENTS[Len(DECT_EVENTS)].event.e = "UnexpectedEventDetails"


\* The operation in flight returns in this step, having consumed Pcc, Pdc and
\* Completed(Ok), with a PDC that did not fit behind the header.
OverflowReturn ==
    /\ pc = "rx"
    /\ pc' = "idle"
    /\ ~cancelled
    /\ Len(seen') = 3
    /\ seen'[1].kind = "Pcc"
    /\ seen'[2].kind = "Pdc"
    /\ seen'[3] = CompletedOk
    /\ seen'[1].b + seen'[2].a > RECVBUF_CAP

\* C29: when the PDC data does not fit in what is left of the scratch buffer
\* the ISR still queues Pdc with the full data length (and stores nothing);
\* rx still returns a guard, whose pdc() is Err(OutOfSpace) and whose pcc()
\* is the header bytes.
C29_PdcOutOfSpace ==
    /\ [][(EventStep("PDC") /\ ~locked /\ Len(RECVBUF) + modem'.len > RECVBUF_CAP) =>
            /\ RECVBUF' = RECVBUF
            /\ panic' \in {"none", "isr: Queue is managed"}
            /\ panic' = "none" =>
                /\ Queued.kind = "Pdc"
                /\ Queued.a = modem'.len]_vars
    /\ [][OverflowReturn =>
            /\ ret' = Ret("rx", "Some", 0)
            /\ guard'.held = "live"
            /\ locked'
            /\ RecvResult_pdc(guard', RECVBUF') = Got(FALSE, <<>>, 0, "OutOfSpace", "")
            /\ RecvResult_pcc(guard', RECVBUF')
                 = Got(TRUE, SubSeq(PccHdr, 1, seen'[1].b), 0, "", "")]_vars

\* rx returned a guard after a 5 byte header and a PDC one byte too long for
\* the rest of the buffer: the buffer holds the header alone.
C29_Witness ==
    /\ ret = Ret("rx", "Some", 0)
    /\ guard.held = "live"
    /\ ~cancelled
    /\ Len(seen) = 3
    /\ seen[1].kind = "Pcc"
    /\ seen[1].b = 5
    /\ seen[2].kind = "Pdc"
    /\ seen[2].a = RECVBUF_CAP - 4
    /\ RECVBUF = SubSeq(PccHdr, 1, 5)
    /\ RecvResult_pdc(guard, RECVBUF).err = "OutOfSpace"


\* C30: on an RSSI event the ISR appends the n samples and records
\* Rssi(start, Some(old_len .. old_len + n)) when the scratch lock is free and
\* the samples fit; when the lock is held or they do not fit it records
\* Rssi(start, None) and leaves the buffer unchanged; in neither case does the
\* RSSI arm crash, and with room in the queue the event is queued.
C30_RssiEvent ==
    [][EventStep("RSSI") =>
        /\ panic' \in {"none", "isr: Queue is managed"}
        /\ panic' = "none" <=> Len(DECT_EVENTS) < DECT_EVENTS_CAP
        /\ RECVBUF' = IF ~locked /\ Len(RECVBUF) + modem'.len <= RECVBUF_CAP
                      THEN RECVBUF \o RssiMeas(modem'.len)
                      ELSE RECVBUF
        /\ panic' = "none" =>
            /\ Len(DECT_EVENTS') = Len(DECT_EVENTS) + 1
            /\ Queued.kind = "Rssi"
            /\ Queued.a = modem'.start
            /\ IF ~locked /\ Len(RECVBUF) + modem'.len <= RECVBUF_CAP
               THEN /\ Queued.ok
                    /\ Queued.b = Len(RECVBUF)
                    /\ Queued.c = Len(RECVBUF) + modem'.len
               ELSE ~Queued.ok]_vars

\* The ISR was handed an RSSI report while a guard held the lock, and
\* recorded Rssi(start, None).
C30_Witness ==
    /\ modem.last = "RSSI"
    /\ locked
    /\ panic = "none"
    /\ DECT_EVENTS # <<>>
    /\ DECT_EVENTS[Len(DECT_EVENTS)].event.kind = "Rssi"
    /\ ~DECT_EVENTS[Len(DECT_EVENTS)].event.ok

\* The ISR stored an RSSI report behind bytes already in the buffer.
C30_WitnessAppend ==
    /\ modem.last = "RSSI"
    /\ panic = "none"
    /\ DECT_EVENTS # <<>>
    /\ DECT_EVENTS[Len(DECT_EVENTS)].event.kind = "Rssi"
    /\ DECT_EVENTS[Len(DECT_EVENTS)].event.ok
    /\ DECT_EVENTS[Len(DECT_EVENTS)].event.b > 0

\* The ISR was handed an RSSI report too long for the buffer.
C30_WitnessTooLong ==
    /\ modem.last = "RSSI"
    /\ modem.len > RECVBUF_CAP
    /\ ~locked
    /\ panic = "none"
    /\ DECT_EVENTS # <<>>
    /\ ~DECT_EVENTS[Len(DECT_EVENTS)].event.ok


\* C31: when the ISR handles a PDC event while a result guard on the task side
\* holds the scratch lock, it does not crash: it records the PDC event without
\* storing the data.
C31_PdcWhileLocked ==
    [][(EventStep("PDC") /\ locked /\ guard.held = "live") =>
        /\ panic' \in {"none", "isr: Queue is managed"}
        /\ RECVBUF' = RECVBUF
        /\ panic' = "none" => Queued.kind \in PdcKinds]_vars

\* The ISR was handed a PDC event while a guard held the lock, and the
\* firmware went down in the PDC arm.
C31_Crash ==
    /\ modem.last = "PDC"
    /\ locked
    /\ guard.held = "live"
    /\ panic = "isr: PDC: Was checked when doing a request"


\* The slice parse_stream was called on.
StreamInput == IF cpc = "raw" THEN buffer ELSE w

\* The items other than None that parse_stream returned so far.
SomeItems == {i \in 1..Len(items) : items[i].item = "Some"}

\* C32: parse_stream over a slice of n bytes ends after at most n items: an
\* empty slice yields no item, every Ok item consumes at least one byte of the
\* remaining input, and an error empties the remaining input.
C32_StreamTerminates ==
    /\ [](cpc \in {"stream", "raw"} =>
            /\ Cardinality(SomeItems) + Len(stream) <= Len(StreamInput)
            /\ (StreamInput = <<>> => SomeItems = {}))
    /\ [][parse_stream_step =>
            LET last == items'[Len(items')]
            IN  /\ stream = <<>> => (last.item = "None" /\ stream' = <<>>)
                /\ (last.item = "Some" /\ last.ok) => Len(stream') < Len(stream)
                /\ (last.item = "Some" /\ ~last.ok) => stream' = <<>>
                /\ last.item = "None" => stream = <<>>]_vars

\* A received stream of two IEs was parsed to its end: two items for
\* SmallLen + 4 bytes, then None.
C32_Witness ==
    /\ cpc = "raw"
    /\ Len(buffer) = SmallLen + 4
    /\ Len(items) = 3
    /\ items[1].item = "Some" /\ items[1].ok
    /\ items[2].item = "Some" /\ items[2].ok
    /\ items[3].item = "None"
    /\ stream = <<>>

\* parse_stream was called on an empty slice and returned None at once.
C32_WitnessEmpty ==
    /\ cpc = "raw"
    /\ buffer = <<>>
    /\ Len(items) = 1
    /\ items[1].item = "None"


\* C33: whenever no DectPhy operation is in flight (after init returned, and
\* after each rx, rssi, tx or time_get returned), the event queue is empty,
\* as long as no operation was cancelled; in the model the modem ends every
\* request it works on with the request's completion event.
C33_IdleQueueEmpty ==
    (pc = "idle" /\ panic = "none" /\ ~cancelled) => DECT_EVENTS = <<>>


\* rx consumed Pcc, Pdc and Completed(Ok) and returned its guard: nothing is
\* left in the queue.
C33_Witness ==
    /\ pc = "idle" /\ panic = "none" /\ ~cancelled
    /\ ret = Ret("rx", "Some", 0)
    /\ Len(seen) = 3
    /\ seen[3] = CompletedOk
    /\ DECT_EVENTS = <<>>

\* rx consumed a failing Completed after a PCC and returned the phy error.
C33_WitnessPhy ==
    /\ pc = "idle" /\ panic = "none" /\ ~cancelled
    /\ ret.op = "rx" /\ ret.kind = "Phy"
    /\ Len(seen) = 2
    /\ DECT_EVENTS = <<>>


\* C34: the ISR never keeps the scratch lock across its return: in every
\* state in which task code runs the lock is held exactly when a result guard
\* was returned and not dropped, it is free while rx or rssi wait for their
\* events, and the try_lock with which rx and rssi build their guard never
\* fails.
C34_LockOnlyByGuard ==
    /\ locked <=> guard.held # "none"
    /\ pc \in {"rx", "rssi"} => ~locked
    /\ panic \notin {"rx: Was checked before", "rssi: Was checked before"}
    /\ guard.held # "none" => guard.kind \in {"RecvResult", "RssiResult"}


\* The ISR stored a PCC and a PDC, and after Completed(Ok) the try_lock of rx
\* succeeded: the guard rx returned holds the lock.
C34_Witness ==
    /\ ~cancelled
    /\ ret.op = "rx" /\ ret.kind = "Some"
    /\ Kinds(seen) = <<"Pcc", "Pdc", "Completed">>
    /\ RECVBUF # <<>>
    /\ guard.kind = "RecvResult" /\ guard.held = "live"
    /\ locked
    /\ panic = "none"


\* C35: for every guard that rx or rssi returns when no operation was
\* cancelled, the recorded indices lie inside the scratch buffer: pcc_len is
\* at most the buffer length and the RSSI range ends inside the buffer, so
\* pcc() and RssiResult::data() never index out of bounds; only pdc() can
\* find its range outside the buffer, and it then returns OutOfSpace.
C35_IndicesInBuffer ==
    (guard.held # "none" /\ ~cancelled) =>
        /\ guard.kind = "RecvResult" =>
            /\ guard.ok => guard.pcc_len <= Len(RECVBUF)
            /\ RecvResult_pcc(guard, RECVBUF).err # "panic"
            /\ (guard.ok /\ guard.pdc_ok /\ guard.pcc_len + guard.pdc_len > Len(RECVBUF))
                => RecvResult_pdc(guard, RECVBUF) = Got(FALSE, <<>>, 0, "OutOfSpace", "")
            /\ RecvResult_pdc(guard, RECVBUF).err # "panic"
        /\ guard.kind = "RssiResult" =>
            /\ guard.lo <= guard.hi
            /\ guard.hi <= Len(RECVBUF)
            /\ RssiResult_data(guard, RECVBUF).ok

\* rx returned a guard whose PDC did not fit: pcc() reads the header, pdc()
\* answers OutOfSpace.
C35_Witness ==
    /\ guard.held = "live" /\ ~cancelled /\ level = 0
    /\ guard.kind = "RecvResult"
    /\ guard.ok /\ guard.pdc_ok
    /\ guard.pcc_len > 0
    /\ guard.pcc_len + guard.pdc_len > Len(RECVBUF)
    /\ RecvResult_pcc(guard, RECVBUF).ok
    /\ RecvResult_pdc(guard, RECVBUF).err = "OutOfSpace"

\* rssi returned a guard over a range that ends at the end of the buffer.
C35_WitnessRssi ==
    /\ guard.held = "live" /\ ~cancelled /\ level = 0
    /\ guard.kind = "RssiResult"
    /\ guard.lo < guard.hi
    /\ guard.hi = Len(RECVBUF)
    /\ RssiResult_data(guard, RECVBUF).ok


\* The states in which a call of an operation is suspended at
\* DECT_EVENTS.receive().
Suspended == pc \in InitWaits \cup {"time_get", "rx", "rssi", "tx"}

\* The modem has stopped inside a request without ending it.
ModemSilent == modem.op # "none" /\ (modem.dead \/ modem.n >= MaxEventsPerOp)

\* C36: if the modem ends every request with its completion event and the
\* task is scheduled fairly, every call of an operation eventually returns or
\* panics; and once the completion event is in the queue the operation needs
\* no further event: none comes, and the operation has an event to consume
\* in every step until it ends.
C36_CallsReturn ==
    /\ (Suspended /\ panic = "none") ~> (~Suspended \/ panic # "none" \/ ModemSilent)
    /\ [](Suspended /\ panic = "none" /\ modem.op = "none" => DECT_EVENTS # <<>>)
    /\ [][(Suspended /\ modem.op = "none") => ~dect_event]_vars
    /\ [][(pc \in {"time_get", "rx", "rssi", "tx"} /\ modem.op = "none" /\ Polled)
            => (modem'.op = "none" /\ Len(DECT_EVENTS') < Len(DECT_EVENTS))]_vars


\* rx is suspended with Pcc, Pdc and Completed(Ok) in the queue and the modem
\* idle: no further event will come.
C36_Witness ==
    /\ pc = "rx" /\ panic = "none"
    /\ modem.op = "none"
    /\ Len(DECT_EVENTS) = 3
    /\ DECT_EVENTS[3].event = CompletedOk

\* tx has returned after its one event.
C36_WitnessReturned ==
    /\ pc = "idle" /\ panic = "none"
    /\ ret = Ret("tx", "Ok", 0)
    /\ Len(seen) = 1
    /\ modem.op = "none"


\* C37: if one rx() operation receives PccError followed by a Pdc or PdcError
\* event and then Completed(Ok), rx() panics; a guard whose indices are
\* Err(PccError) is returned only when no PDC event arrived in that operation.
C37_PdcAfterPccError ==
    /\ [][(/\ pc = "rx"
           /\ seen' # seen
           /\ Len(seen') = 3
           /\ seen'[1].kind = "PccError"
           /\ seen'[2].kind \in PdcKinds
           /\ seen'[3] = CompletedOk)
            => /\ panic' = "rx: Sequence violation"
               /\ pc' = "rx"
               /\ ret'.kind = "pending"
               /\ guard' = NoGuard
               /\ ~locked']_vars
    /\ [](/\ ret = Ret("rx", "Some", 0)
          /\ guard.held # "none"
          /\ ~guard.ok
          => /\ Count(seen, PdcKinds) = 0
             /\ Count(seen, {"PccError"}) >= 1)

\* rx received PccError, Pdc and Completed(Ok) and panicked.
C37_Witness ==
    /\ Kinds(seen) = <<"PccError", "Pdc", "Completed">>
    /\ seen[3] = CompletedOk
    /\ ret.op = "rx"
    /\ panic = "rx: Sequence violation"

\* rx received PccError and Completed(Ok) and returned a guard with the error.
C37_WitnessGuard ==
    /\ Kinds(seen) = <<"PccError", "Completed">>
    /\ ret = Ret("rx", "Some", 0)
    /\ guard.held = "live" /\ ~guard.ok
    /\ panic = "none"


\* C38: if an rssi() operation receives Completed(Ok) without any preceding
\* Rssi event, rssi() panics; it returns neither a result guard nor an error.
C38_RssiWithoutReport ==
    [][(/\ pc = "rssi"
        /\ seen' # seen
        /\ Count(seen', {"Rssi"}) = 0
        /\ seen'[Len(seen')] = CompletedOk)
        => /\ panic' = "rssi: Sequence violation"
           /\ pc' = "rssi"
           /\ ret' = Ret("rssi", "pending", 0)
           /\ guard' = NoGuard
           /\ ~locked']_vars

\* The modem answered an RSSI request with a successful completion alone, and
\* rssi panicked.
C38_Witness ==
    /\ ret.op = "rssi"
    /\ seen = <<CompletedOk>>
    /\ ~cancelled
    /\ guard = NoGuard
    /\ panic = "rssi: Sequence violation"


\* A call of rx, rssi, tx or time_get is made.
Begin ==
    /\ CanCall
    /\ \/ ret'.op = "rx" /\ rx_begin
       \/ ret'.op = "rssi" /\ rssi_begin
       \/ ret'.op = "tx" /\ tx_begin
       \/ ret'.op = "time_get" /\ time_get_begin

\* C39: when the synchronous modem call of rx, rssi, tx or time_get returns
\* an error, the operation returns the general error at once: it receives no
\* event, leaves the queue and the modem as they were and takes no scratch
\* lock (for rx and rssi the scratch buffer has been cleared, for tx and
\* time_get it is untouched), so that the next operation can start.
C39_RefusedRequest ==
    /\ [][(panic' = "none" /\ modem' = modem /\ ret'.kind # "Usage" /\ Begin) =>
            /\ ret' = Ret(ret'.op, "General", 0)
            /\ pc' = "idle"
            /\ seen' = <<>>
            /\ DECT_EVENTS' = DECT_EVENTS
            /\ locked' = locked /\ guard' = guard
            /\ guard'.held # "live"
            /\ (rx_begin \/ rssi_begin) => (RECVBUF' = <<>> /\ ~locked')
            /\ (tx_begin \/ time_get_begin) => RECVBUF' = RECVBUF]_vars
    /\ [][(ret'.kind = "General" /\ Begin) =>
            (panic' = "none" /\ modem' = modem /\ pc' = "idle")]_vars
    /\ [](ret.kind = "General" /\ pc = "idle" /\ panic = "none" /\ ~cancelled
            => (seen = <<>> /\ guard.held # "live"))


\* The modem refused the request of a time_get made after an rx had returned
\* its guard and the guard was dropped: time_get returned the general error,
\* and the scratch buffer still holds what the rx received.
C39_Witness ==
    /\ ret = Ret("time_get", "General", 0)
    /\ pc = "idle" /\ panic = "none" /\ ~cancelled
    /\ seen = <<>>
    /\ DECT_EVENTS = <<>>
    /\ modem.op = "none"
    /\ RECVBUF # <<>>
    /\ ~locked

\* The modem refused the request of an rx: the buffer is cleared and free.
C39_WitnessRx ==
    /\ ret = Ret("rx", "General", 0)
    /\ pc = "idle" /\ panic = "none" /\ ~cancelled
    /\ seen = <<>>
    /\ RECVBUF = <<>>
    /\ ~locked


\* C40: tx and time_get never touch the scratch buffer: their steps leave its
\* contents, its lock and the guard as they were, whether the call succeeds,
\* fails or returns the usage error; while one of them is suspended nothing
\* else changes the buffer either, as long as the modem keeps to the
\* request's events and no operation was cancelled; and each receives exactly
\* one event when its modem call was accepted, and none otherwise.
C40_TxTimeGetFrame ==
    /\ [][/\ (CanCall /\ ret'.op \in {"tx", "time_get"} /\ (tx_begin \/ time_get_begin)) =>
                /\ RECVBUF' = RECVBUF
                /\ locked' = locked
                /\ guard' = guard
                /\ DECT_EVENTS' = DECT_EVENTS
          /\ ((pc = "tx" /\ tx_recv) \/ (pc = "time_get" /\ time_get_recv)) =>
                /\ RECVBUF' = RECVBUF
                /\ locked' = locked
                /\ guard' = guard
                /\ DECT_EVENTS' = Tail(DECT_EVENTS)
                /\ seen' = <<Head(DECT_EVENTS).event>>
                /\ pc' = "idle" \/ panic' # "none"
          /\ (pc \in {"tx", "time_get"} /\ ~cancelled /\ level' = 0) =>
                (RECVBUF' = RECVBUF /\ locked' = locked)]_vars
    /\ [](ret.op \in {"tx", "time_get"} /\ pc = "idle" =>
            /\ ret.kind \in {"Ok", "Phy"} => Len(seen) = 1
            /\ ret.kind \in {"General", "Usage"} => seen = <<>>)

\* tx returned Ok after its one event, with the scratch buffer still holding
\* what an earlier rx received.
C40_Witness ==
    /\ ret = Ret("tx", "Ok", 0)
    /\ pc = "idle" /\ panic = "none" /\ ~cancelled
    /\ seen = <<CompletedOk>>
    /\ RECVBUF # <<>>
    /\ ~locked
    /\ DECT_EVENTS = <<>>

\* time_get returned the time with a leaked guard still holding the lock.
C40_WitnessLocked ==
    /\ ret.op = "time_get" /\ ret.kind = "Ok"
    /\ pc = "idle" /\ panic = "none" /\ ~cancelled
    /\ Len(seen) = 1
    /\ RECVBUF # <<>>
    /\ locked /\ guard.held = "leaked"

====
